---- MODULE Spec2Model ----
(***************************************************************************)
(* Model of the NBR request coordinator of the burn-severity map:          *)
(* the React component NBRCalculator (frontend/src/components/ol-maps/     *)
(* NBRCalculator.tsx), its effects, the asynchronous body of calculateNBR  *)
(* and the inline web worker it talks to.                                  *)
(*                                                                         *)
(* One render of the component is two steps: Commit (the render itself,    *)
(* the effect clean-ups and the first two effects) and CalcEffect (the     *)
(* third effect, one invocation of calculateNBR up to its first await).    *)
(* No other step can come between the two.  The awaits of calculateNBR,    *)
(* the worker's run and the delivery of its messages are steps of their    *)
(* own and interleave freely with renders.                                  *)
(***************************************************************************)
EXTENDS Integers, Sequences, FiniteSets, TLC

\* ------------------------------------------------------------------ bounds
\* computations (and hence workers) started in one behaviour
MaxComps == 2

\* ------------------------------------------------------- input domains
NULL == "null"
NirUrls == {"a", "b"}
SwirUrls == {"s"}
\* EPSG:3857 extents handed in by OLMap (four numbers each)
Extents == {<<0, 0, 10, 10>>}

\* ------------------------------------------------------- key construction
Digit == <<"0", "1", "2", "3", "4", "5", "6", "7", "8", "9">>

RECURSIVE NatStr(_)
NatStr(n) == IF n < 10 THEN Digit[n + 1]
             ELSE NatStr(n \div 10) \o Digit[(n % 10) + 1]

\* String(n) of a JavaScript integer number
NumStr(n) == IF n < 0 THEN "-" \o NatStr(0 - n) ELSE NatStr(n)

\* extent.join(',')
ExtentJoin(e) == NumStr(e[1]) \o "," \o NumStr(e[2]) \o "," \o
                 NumStr(e[3]) \o "," \o NumStr(e[4])

\* `${nirUrl}-${swirUrl}-${extent.join(',')}`
currentKey(nir, swir, e) == nir \o "-" \o swir \o "-" \o ExtentJoin(e)

AllKeys == {currentKey(n, s, e) : n \in NirUrls, s \in SwirUrls, e \in Extents}

\* ------------------------------------------------------------------ state
VARIABLES
  mounted,             \* the component is mounted
  phase,               \* "idle", or "calc": the calculateNBR effect of this render is due
  rendered,            \* the last render: its props, and the state it saw (closure values, effect deps)
  isLoading,           \* useState isLoading (latest value set)
  calculationKey,      \* useState calculationKey
  isNBRProcessed,      \* useState isNBRProcessed
  calculationProgress, \* useState calculationProgress
  workerRef,           \* workerRef.current: 0 is null, else a worker id
  cacheRef,            \* cacheRef.current: NULL or a CacheEntry
  layer,               \* the map's layer named 'NBRLayer': NULL or a record
  comps,               \* the calculateNBR invocations that got past the guards
  workers,             \* the workers created, workers[i] made by comps[i]
  calls,               \* the callbacks the last step invoked
  kstate,              \* per key: the last thing a computation of that key did
  startsSinceChange,   \* computations started since the inputs last changed
  failedKeys,          \* keys whose current computation failed since the last reset
  \* one run of the worker's self.onmessage, pixel by pixel
  edata,               \* e.data: nirData, swirData, windowWidth, windowHeight, noDataValue
  pixelIndex,          \* the loop index i (0-based): pixels below it are done
  nbrValues,           \* the Float32Array of results
  minValue,            \* running minimum
  maxValue,            \* running maximum
  posted,              \* the 'complete' message, once posted
  \* one pass of calculateNBR from the resolved images to the posted buffers
  geo,                 \* the extent requested and the two images opened
  win,                 \* the locals computed so far, and how far the pass got
  \* the canvas bytes written from a buffer of NBR values
  pixelData,           \* imageData.data of createNBRLayer (NBRCalculator.tsx)
  syncData,            \* imageData.data of the synchronous variant (part_005)
  \* two requests and the keys built for them
  keyReq,
  \* one run of the worker's chunk loop, chunk by chunk
  chunk,
  \* the map's layer collection, by layer name
  mapLayers,
  \* the state of the OLMap component
  olmap,
  \* the state of the NBRMap page and its toggles
  page

coordVars == <<mounted, phase, rendered, isLoading, calculationKey,
               isNBRProcessed, calculationProgress, workerRef, cacheRef, layer,
               comps, workers, calls, kstate, startsSinceChange, failedKeys>>

workerVars == <<edata, pixelIndex, nbrValues, minValue, maxValue, posted>>

windowVars == <<geo, win>>

\* the variables of the two straight-line computations, which the steps of
\* the component leave alone
auxVars == <<pixelData, syncData, keyReq, chunk, mapLayers, olmap, page>>

pureVars == <<workerVars, windowVars, auxVars>>

vars == <<coordVars, pureVars>>

CompIds == 1..Len(comps)

\* an extent prop: its four numbers and the identity of the array object
ExtentObjs == [vals : Extents, id : {0, 1}]

\* null, where an extent, a cache entry or a layer is expected
NoExtent == [vals |-> <<>>, id |-> 0]
NoEntry == [key |-> NULL, src |-> 0, ext |-> <<>>]
NoLayer == [src |-> 0, key |-> NULL, extent |-> <<>>]

\* the band URLs OLMap holds: none, or those of the imagery item found
BandPairs == {<<NULL, NULL>>} \cup (NirUrls \X SwirUrls)

PropsSet == {[nir |-> b[1], swir |-> b[2], ext |-> e, visible |-> v, map |-> m] :
               b \in BandPairs, e \in ExtentObjs \cup {NoExtent},
               v \in BOOLEAN, m \in BOOLEAN}

\* What OLMap can hand to NBRCalculator after `old`: the map instance, once
\* created, stays; the band URLs come from an imagery search, which needs the
\* map and its extent; visible is showNBR && !!nirUrl && !!swirUrl; the extent
\* is nbrCalculationExtent || currentMapExtent, and a new array with the same
\* numbers is a different object.
PropsOK(old, p) ==
  /\ old.map => p.map
  /\ old.ext # NoExtent => p.ext # NoExtent
  /\ (p.nir # NULL \/ p.swir # NULL) => (p.map /\ p.ext # NoExtent)
  /\ p.visible => (p.nir # NULL /\ p.swir # NULL)
  /\ (p.ext # NoExtent /\ (old.ext = NoExtent \/ old.ext.vals # p.ext.vals)) => p.ext.id = 0

PropsOf(r) == [nir |-> r.nir, swir |-> r.swir, ext |-> r.ext,
               visible |-> r.visible, map |-> r.map]

\* callback invocations: onLoadingChange(loading) and
\* onCalculationComplete(minValue, maxValue), the statistics being those of the
\* worker run over the buffers of computation src
LoadingChange(loading) == [cb |-> "onLoadingChange", arg |-> IF loading THEN 1 ELSE 0]
CalculationComplete(src) == [cb |-> "onCalculationComplete", arg |-> src]

NoCalls == {}

CoordInit ==
  /\ mounted = TRUE
  /\ phase = "idle"
  /\ rendered = [valid |-> FALSE, nir |-> NULL, swir |-> NULL, ext |-> NoExtent,
                 visible |-> FALSE, map |-> FALSE, proc |-> FALSE, key |-> NULL]
  /\ isLoading = FALSE
  /\ calculationKey = NULL
  /\ isNBRProcessed = FALSE
  /\ calculationProgress = 0
  /\ workerRef = 0
  /\ cacheRef = NoEntry
  /\ layer = NoLayer
  /\ comps = <<>>
  /\ workers = <<>>
  /\ calls = NoCalls
  /\ kstate = [k \in AllKeys |-> "Idle"]
  /\ startsSinceChange = 0
  /\ failedKeys = {}

\* ------------------------------------------------------------ the worker slot
\* cleanupWorker without the terminate() call: the slot is emptied, the worker
\* lives on
cleanupWorkerNoTerminate(wk, ref) == wk

\* cleanupWorker: terminate() the worker in the slot; a terminated worker
\* runs nothing more and none of its messages is delivered
cleanupWorker(wk, ref) ==
  IF ref # 0
    THEN [wk EXCEPT ![ref] = [terminated |-> TRUE, handler |-> 0,
                              inbox |-> <<>>, outbox |-> <<>>]]
    ELSE wk

\* createWorker: a fresh worker, no onmessage handler on the main thread yet
createWorker == [terminated |-> FALSE, handler |-> 0, inbox |-> <<>>, outbox |-> <<>>]

\* createNBRLayer: returns without a map instance; else it removes the layers
\* named 'NBRLayer' and adds the new one
createNBRLayer(mapInstance, old, src, key, nbrExtent) ==
  IF mapInstance
    THEN [src |-> src, key |-> key, extent |-> nbrExtent]
    ELSE old

\* ---------------------------------------------------------------- rendering
\* A render with props p (cb: the parent handed in a new onLoadingChange
\* function, as NBRMap does on each of its renders), followed by the effect
\* clean-ups and the reset and visibility effects.
Commit(p, cb) ==
  /\ mounted
  /\ phase = "idle"
  /\ IF rendered.valid THEN PropsOK(rendered, p) ELSE p = PropsOf(rendered)
  /\ \/ ~rendered.valid
     \/ p # PropsOf(rendered)
     \/ cb
     \/ isNBRProcessed # rendered.proc
     \/ calculationKey # rendered.key
  \* with changed props calculateNBR is a new function whatever cb is
  /\ cb => p = PropsOf(rendered)
  /\ LET first       == ~rendered.valid
         resetFires  == first \/ <<p.nir, p.swir, p.ext>> #
                                 <<rendered.nir, rendered.swir, rendered.ext>>
         visFires    == first \/ p.visible # rendered.visible \/ p.map # rendered.map
         calcChanged == \/ resetFires
                        \/ isNBRProcessed # rendered.proc
                        \/ calculationKey # rendered.key
                        \/ p.map # rendered.map
                        \/ cb
         calcFires   == first \/ p.visible # rendered.visible \/ calcChanged
         cleanupRuns == visFires /\ ~first
         visBody     == visFires /\ ~p.visible /\ p.map
         inputsChanged ==
           <<p.nir, p.swir, p.visible, p.ext.vals>> #
           <<rendered.nir, rendered.swir, rendered.visible, rendered.ext.vals>>
     IN
     /\ rendered' = [valid |-> TRUE, nir |-> p.nir, swir |-> p.swir, ext |-> p.ext,
                     visible |-> p.visible, map |-> p.map,
                     proc |-> isNBRProcessed, key |-> calculationKey]
     /\ workers' = IF cleanupRuns \/ visBody THEN cleanupWorker(workers, workerRef)
                                             ELSE workers
     /\ workerRef' = IF cleanupRuns \/ visBody THEN 0 ELSE workerRef
     /\ layer' = IF visBody THEN NoLayer ELSE layer
     /\ isNBRProcessed' = IF resetFires \/ visBody THEN FALSE ELSE isNBRProcessed
     /\ calculationKey' = IF resetFires \/ visBody THEN NULL ELSE calculationKey
     /\ failedKeys' = IF resetFires \/ visBody THEN {} ELSE failedKeys
     /\ startsSinceChange' = IF inputsChanged THEN 0 ELSE startsSinceChange
     /\ phase' = IF calcFires /\ p.visible THEN "calc" ELSE "idle"
     /\ calls' = NoCalls
  /\ UNCHANGED <<mounted, isLoading, calculationProgress, cacheRef, comps, kstate>>
  /\ UNCHANGED pureVars

\* Unmount: the clean-up of the visibility effect runs
Unmount ==
  /\ mounted
  /\ phase = "idle"
  /\ rendered.valid
  /\ mounted' = FALSE
  /\ workers' = cleanupWorker(workers, workerRef)
  /\ workerRef' = 0
  /\ calls' = NoCalls
  /\ UNCHANGED <<phase, rendered, isLoading, calculationKey, isNBRProcessed,
                 calculationProgress, cacheRef, layer, comps, kstate,
                 startsSinceChange, failedKeys>>
  /\ UNCHANGED pureVars

\* --------------------------------------------- calculateNBR up to its first await
\* the key of the invocation whose closure is the last render
RenderedKey == currentKey(rendered.nir, rendered.swir, rendered.ext.vals)

InputsPresent == rendered.nir # NULL /\ rendered.swir # NULL /\ rendered.ext # NoExtent

CacheHolds(k) == cacheRef # NoEntry /\ cacheRef.key = k

\* the two early returns: 'NBR already processed' and 'Missing required data'
CalcReturnEarly ==
  /\ phase = "calc"
  /\ rendered.proc \/ ~InputsPresent
  /\ phase' = "idle"
  /\ calls' = NoCalls
  /\ UNCHANGED <<mounted, rendered, isLoading, calculationKey, isNBRProcessed,
                 calculationProgress, workerRef, cacheRef, layer, comps, workers,
                 kstate, startsSinceChange, failedKeys>>
  /\ UNCHANGED pureVars

\* the cache-hit branch, signalling loading like a fresh computation
CalcCacheHitSignalsLoading ==
  /\ phase = "calc"
  /\ ~rendered.proc /\ InputsPresent
  /\ CacheHolds(RenderedKey)
  /\ layer' = createNBRLayer(rendered.map, layer, cacheRef.src, cacheRef.key,
                             rendered.ext.vals)
  /\ isLoading' = TRUE
  /\ kstate' = [kstate EXCEPT ![RenderedKey] = "Cached"]
  /\ phase' = "idle"
  /\ calls' = {LoadingChange(TRUE), CalculationComplete(cacheRef.src)}
  /\ UNCHANGED <<mounted, rendered, calculationKey, isNBRProcessed,
                 calculationProgress, workerRef, cacheRef, comps, workers,
                 startsSinceChange, failedKeys>>
  /\ UNCHANGED pureVars

\* 'Using cached NBR results'
CalcCacheHit ==
  /\ phase = "calc"
  /\ ~rendered.proc /\ InputsPresent
  /\ CacheHolds(RenderedKey)
  /\ layer' = createNBRLayer(rendered.map, layer, cacheRef.src, cacheRef.key,
                             rendered.ext.vals)
  /\ kstate' = [kstate EXCEPT ![RenderedKey] = "Cached"]
  /\ phase' = "idle"
  /\ calls' = {CalculationComplete(cacheRef.src)}
  /\ UNCHANGED <<mounted, rendered, isLoading, calculationKey, isNBRProcessed,
                 calculationProgress, workerRef, cacheRef, comps, workers,
                 startsSinceChange, failedKeys>>
  /\ UNCHANGED pureVars

\* 'Calculation already in progress'
CalcInProgress ==
  /\ phase = "calc"
  /\ ~rendered.proc /\ InputsPresent
  /\ ~CacheHolds(RenderedKey)
  /\ rendered.key = RenderedKey
  /\ phase' = "idle"
  /\ calls' = NoCalls
  /\ UNCHANGED <<mounted, rendered, isLoading, calculationKey, isNBRProcessed,
                 calculationProgress, workerRef, cacheRef, layer, comps, workers,
                 kstate, startsSinceChange, failedKeys>>
  /\ UNCHANGED pureVars

\* a computation starts: state set, loading signalled, the slot emptied and
\* refilled, both fromUrl calls issued
CalcStart ==
  /\ phase = "calc"
  /\ ~rendered.proc /\ InputsPresent
  /\ ~CacheHolds(RenderedKey)
  /\ rendered.key # RenderedKey
  /\ Len(comps) < MaxComps
  /\ calculationKey' = RenderedKey
  /\ isNBRProcessed' = TRUE
  /\ calculationProgress' = 0
  /\ isLoading' = TRUE
  /\ workers' = Append(cleanupWorker(workers, workerRef), createWorker)
  /\ workerRef' = Len(comps) + 1
  /\ comps' = Append(comps, [nir |-> rendered.nir, swir |-> rendered.swir,
                             ext |-> rendered.ext.vals, key |-> RenderedKey,
                             map |-> rendered.map, stage |-> "opening"])
  /\ kstate' = [kstate EXCEPT ![RenderedKey] = "Fetching"]
  /\ startsSinceChange' = startsSinceChange + 1
  /\ phase' = "idle"
  /\ calls' = {LoadingChange(TRUE)}
  /\ UNCHANGED <<mounted, rendered, cacheRef, layer, failedKeys>>
  /\ UNCHANGED pureVars

\* ------------------------------------------------- calculateNBR after its awaits
\* "opening": in the awaits of fromUrl and getImage; "reading": in the await
\* of readRasters
FetchStages == {"opening", "reading"}

\* the catch block, clearing calculationKey as well
CatchClearsKey(c) ==
  /\ isNBRProcessed' = FALSE
  /\ calculationKey' = NULL
  /\ isLoading' = FALSE
  /\ workers' = cleanupWorker(workers, workerRef)
  /\ workerRef' = 0
  /\ comps' = [comps EXCEPT ![c].stage = "failed"]
  /\ kstate' = [kstate EXCEPT ![comps[c].key] = "Failed"]
  /\ failedKeys' = IF calculationKey = comps[c].key
                     THEN failedKeys \cup {comps[c].key} ELSE failedKeys
  /\ calls' = {LoadingChange(FALSE)}
  /\ UNCHANGED <<mounted, phase, rendered, calculationProgress, cacheRef, layer,
                 startsSinceChange>>
  /\ UNCHANGED pureVars

\* the catch block of computation c
Catch(c) ==
  /\ isNBRProcessed' = FALSE
  /\ isLoading' = FALSE
  /\ workers' = cleanupWorker(workers, workerRef)
  /\ workerRef' = 0
  /\ comps' = [comps EXCEPT ![c].stage = "failed"]
  /\ kstate' = [kstate EXCEPT ![comps[c].key] = "Failed"]
  /\ failedKeys' = IF calculationKey = comps[c].key
                     THEN failedKeys \cup {comps[c].key} ELSE failedKeys
  /\ calls' = {LoadingChange(FALSE)}
  /\ UNCHANGED <<mounted, phase, rendered, calculationKey,
                 calculationProgress, cacheRef, layer, startsSinceChange>>
  /\ UNCHANGED pureVars

\* Promise.all([fromUrl, fromUrl]) and both getImage(0) have resolved; the
\* windows are computed and both readRasters calls issued
AwaitResolved(c) ==
  /\ phase = "idle"
  /\ comps[c].stage = "opening"
  /\ comps' = [comps EXCEPT ![c].stage = "reading"]
  /\ calls' = NoCalls
  /\ UNCHANGED <<mounted, phase, rendered, isLoading, calculationKey,
                 isNBRProcessed, calculationProgress, workerRef, cacheRef, layer,
                 workers, kstate, startsSinceChange, failedKeys>>
  /\ UNCHANGED pureVars

\* fromUrl, getImage or readRasters rejects
AwaitRejected(c) ==
  /\ phase = "idle"
  /\ comps[c].stage \in FetchStages
  /\ Catch(c)

\* Promise.all([readRasters, readRasters]) resolves: the handler is set on
\* whatever worker is in the slot at this moment and the buffers are posted to
\* it; with the slot empty, workerRef.current.onmessage throws a TypeError
ReadRastersResolved(c) ==
  /\ phase = "idle"
  /\ comps[c].stage = "reading"
  /\ IF workerRef = 0
       THEN Catch(c)
       ELSE /\ workers' = [workers EXCEPT ![workerRef].handler = c,
                                          ![workerRef].inbox = Append(@, c)]
            /\ comps' = [comps EXCEPT ![c].stage = "posted"]
            /\ kstate' = [kstate EXCEPT ![comps[c].key] = "Computing"]
            /\ calls' = NoCalls
            /\ UNCHANGED <<mounted, phase, rendered, isLoading, calculationKey,
                           isNBRProcessed, calculationProgress, workerRef, cacheRef,
                           layer, startsSinceChange, failedKeys, pureVars>>

\* ------------------------------------------------------------------ the worker
\* the NIR rasters whose window holds more than 100000 pixels
LargeRasters == {"b"}

\* progress values a run over more than 100000 pixels reports (the last one kept)
ProgressSteps == <<100>>

Msg(type, src, progress) == [type |-> type, src |-> src, progress |-> progress]

\* self.onmessage of worker w: one run over the buffers of the first message
\* waiting, posting its progress messages and then 'complete'
WorkerRun(w) ==
  /\ ~workers[w].terminated
  /\ workers[w].inbox # <<>>
  /\ LET src == Head(workers[w].inbox)
         big == comps[src].nir \in LargeRasters
         out == (IF big THEN [i \in 1..Len(ProgressSteps) |->
                                Msg("progress", src, ProgressSteps[i])]
                        ELSE <<>>) \o <<Msg("complete", src, 0)>>
     IN workers' = [workers EXCEPT ![w].inbox = Tail(@), ![w].outbox = @ \o out]
  /\ calls' = NoCalls
  /\ UNCHANGED <<mounted, phase, rendered, isLoading, calculationKey,
                 isNBRProcessed, calculationProgress, workerRef, cacheRef, layer,
                 comps, kstate, startsSinceChange, failedKeys>>
  /\ UNCHANGED pureVars

\* a 'progress' message of worker w reaches the handler set on it
OnProgress(w) ==
  /\ phase = "idle"
  /\ ~workers[w].terminated
  /\ workers[w].outbox # <<>>
  /\ Head(workers[w].outbox).type = "progress"
  /\ calculationProgress' = Head(workers[w].outbox).progress
  /\ workers' = [workers EXCEPT ![w].outbox = Tail(@)]
  /\ calls' = NoCalls
  /\ UNCHANGED <<mounted, phase, rendered, isLoading, calculationKey,
                 isNBRProcessed, workerRef, cacheRef, layer, comps, kstate,
                 startsSinceChange, failedKeys>>
  /\ UNCHANGED pureVars

\* a 'complete' message of worker w reaches the handler set on it, which is
\* the closure of computation h
OnComplete(w) ==
  /\ phase = "idle"
  /\ ~workers[w].terminated
  /\ workers[w].outbox # <<>>
  /\ Head(workers[w].outbox).type = "complete"
  /\ LET h == workers[w].handler
         m == Head(workers[w].outbox)
         wk == [workers EXCEPT ![w].outbox = Tail(@)]
     IN /\ cacheRef' = [key |-> comps[h].key, src |-> m.src, ext |-> comps[h].ext]
        /\ layer' = createNBRLayer(comps[h].map, layer, m.src, comps[h].key,
                                   comps[h].ext)
        /\ isLoading' = FALSE
        /\ workers' = cleanupWorker(wk, workerRef)
        /\ workerRef' = 0
        /\ comps' = [comps EXCEPT ![h].stage = "complete"]
        /\ kstate' = [kstate EXCEPT ![comps[h].key] = "Cached"]
        /\ calls' = {LoadingChange(FALSE), CalculationComplete(m.src)}
  /\ UNCHANGED <<mounted, phase, rendered, calculationKey, isNBRProcessed,
                 calculationProgress, startsSinceChange, failedKeys>>
  /\ UNCHANGED pureVars

\* ------------------------------------------------- numbers of the worker
\* A JavaScript number: NaN, or the fraction num/den in lowest terms, den > 0
\* (den = 0 for the infinities).  The products and sums of the pixel loop are
\* taken exactly; the rounding of a store into the Float32Array is F32 below.
RECURSIVE GCD(_, _)
GCD(a, b) == IF b = 0 THEN a ELSE GCD(b, a % b)

Abs(n) == IF n < 0 THEN 0 - n ELSE n

NaN == [nan |-> TRUE, num |-> 0, den |-> 1]

Rat(n, d) ==
  LET g == GCD(Abs(n), Abs(d))
      sg == IF d < 0 THEN 0 - 1 ELSE 1
  IN [nan |-> FALSE, num |-> sg * (n \div g), den |-> sg * (d \div g)]

Infinity == [nan |-> FALSE, num |-> 1, den |-> 0]
NegInfinity == [nan |-> FALSE, num |-> 0 - 1, den |-> 0]

\* a read past the end of a typed array gives undefined, which compares and
\* multiplies like NaN
Undefined == NaN

Mul(a, b) == IF a.nan \/ b.nan THEN NaN ELSE Rat(a.num * b.num, a.den * b.den)
Add(a, b) == IF a.nan \/ b.nan THEN NaN
             ELSE Rat(a.num * b.den + b.num * a.den, a.den * b.den)
Sub(a, b) == IF a.nan \/ b.nan THEN NaN
             ELSE Rat(a.num * b.den - b.num * a.den, a.den * b.den)
Div(a, b) == IF a.nan \/ b.nan \/ b.num = 0 THEN NaN
             ELSE Rat(a.num * b.den, a.den * b.num)

\* a < b; false when either is NaN
Lt(a, b) == /\ ~a.nan /\ ~b.nan
            /\ (a.num # b.num \/ a.den # b.den)
            /\ IF a.den = 0 /\ b.den = 0 THEN a.num < b.num
               ELSE a.num * b.den < b.num * a.den
Le(a, b) == ~a.nan /\ ~b.nan /\ ~Lt(b, a)
\* a === b
StrictEq(a, b) == ~a.nan /\ ~b.nan /\ a.num = b.num /\ a.den = b.den

\* ---- Float32Array element: (-1)^neg * m * 2^(-e), 2^23 <= m < 2^24, or m = 0
MantissaBits == 23
MantissaTop == 16777216

RECURSIVE Normalize(_, _, _)
\* scale r/q into [1, 2): the result <<r, q, e>> has r/q * 2^(-e) the value
Normalize(r, q, e) ==
  IF r < q THEN Normalize(2 * r, q, e + 1)
  ELSE IF r >= 2 * q THEN Normalize(r, 2 * q, e - 1)
  ELSE <<r, q, e>>

RECURSIVE Mantissa(_, _, _, _)
\* n more bits of the quotient: <<mantissa, remainder>>
Mantissa(r, q, m, n) ==
  IF n = 0 THEN <<m, r>>
  ELSE IF 2 * r >= q THEN Mantissa(2 * r - q, q, 2 * m + 1, n - 1)
                     ELSE Mantissa(2 * r, q, 2 * m, n - 1)

\* the store of a finite number into a Float32Array: round to nearest, ties
\* to even
F32(x) ==
  IF x.num = 0 THEN [neg |-> FALSE, m |-> 0, e |-> 0]
  ELSE LET nz == Normalize(Abs(x.num), x.den, 0)
           mr == Mantissa(nz[1] - nz[2], nz[2], 1, MantissaBits)
           up == 2 * mr[2] > nz[2] \/ (2 * mr[2] = nz[2] /\ mr[1] % 2 = 1)
           m1 == IF up THEN mr[1] + 1 ELSE mr[1]
       IN IF m1 = MantissaTop
            THEN [neg |-> x.num < 0, m |-> MantissaTop \div 2, e |-> nz[3] + MantissaBits - 1]
            ELSE [neg |-> x.num < 0, m |-> m1, e |-> nz[3] + MantissaBits]

\* the store changes the number
F32Inexact(x) ==
  x.num # 0 /\ LET nz == Normalize(Abs(x.num), x.den, 0)
               IN Mantissa(nz[1] - nz[2], nz[2], 1, MantissaBits)[2] # 0

\* |f| <= 1
F32InUnit(f) == f.m = 0 \/ f.e > MantissaBits
                \/ (f.e = MantissaBits /\ f.m = MantissaTop \div 2)

\* |f| < |g|, both nonzero
F32MagLt(f, g) == f.e > g.e \/ (f.e = g.e /\ f.m < g.m)

\* f < g
F32Lt(f, g) ==
  IF f.m = 0 THEN g.m # 0 /\ ~g.neg
  ELSE IF g.m = 0 THEN f.neg
  ELSE IF f.neg # g.neg THEN f.neg
  ELSE IF f.neg THEN F32MagLt(g, f) ELSE F32MagLt(f, g)

\* ------------------------------------------------- the worker's pixel loop
\* noDataValue: -9999, as posted by calculateNBR
noDataValue == 0 - 9999
\* scaleFactor = 0.0001
scaleFactor == Rat(1, 10000)
\* the no-data limit of a raw sample, and the least denominator: 0.001
rawLimit == Rat(65000, 1)
denominatorLimit == Rat(1, 1000)

\* nirData[i], swirData[i] of a typed array (i from 0)
Sample(data, i) == IF i < Len(data) THEN Rat(data[i + 1], 1) ELSE Undefined

\* denominator >= 0.001 in place of denominator > 0.001
denominatorOKInclusive(denominator) == ~Lt(denominator, denominatorLimit)

\* denominator > 0.001
denominatorOK(denominator) == Lt(denominatorLimit, denominator)

\* no check of the range
inRangeAlways(nbrValue) == TRUE

\* nbrValue >= -1 && nbrValue <= 1
inRange(nbrValue) == Le(Rat(0 - 1, 1), nbrValue) /\ Le(nbrValue, Rat(1, 1))

\* the body of the for loop for one pixel: what is stored, and, when the
\* pixel is valid, the value that goes into min/max
Pixel(rawNir, rawSwir, noData) ==
  IF \/ StrictEq(rawNir, Rat(0, 1)) \/ StrictEq(rawSwir, Rat(0, 1))
     \/ Lt(rawLimit, rawNir) \/ Lt(rawLimit, rawSwir)
    THEN [valid |-> FALSE, nbrValue |-> NaN, stored |-> F32(noData)]
    ELSE LET nir == Mul(rawNir, scaleFactor)
             swir == Mul(rawSwir, scaleFactor)
             denominator == Add(nir, swir)
             nbrValue == Div(Sub(nir, swir), denominator)
         IN IF denominatorOK(denominator) /\ inRange(nbrValue)
              THEN [valid |-> TRUE, nbrValue |-> nbrValue, stored |-> F32(nbrValue)]
              ELSE [valid |-> FALSE, nbrValue |-> NaN, stored |-> F32(noData)]

\* the statistics of the message, without the fallback for a run that saw no
\* valid pixel
StatsNoFallback(lo, hi) == [minValue |-> lo, maxValue |-> hi]

\* minValue === Infinity ? -1 : minValue, maxValue === -Infinity ? 1 : maxValue
Stats(lo, hi) ==
  [minValue |-> IF StrictEq(lo, Infinity) THEN Rat(0 - 1, 1) ELSE lo,
   maxValue |-> IF StrictEq(hi, NegInfinity) THEN Rat(1, 1) ELSE hi]

NoData == [nirData |-> <<>>, swirData |-> <<>>, windowWidth |-> 0,
           windowHeight |-> 0, noDataValue |-> Rat(noDataValue, 1)]
NoMsg == [type |-> "none", nbrValues |-> <<>>, stats |-> Stats(Infinity, NegInfinity),
          width |-> 0, height |-> 0]

WorkerIdle ==
  /\ edata = NoData
  /\ pixelIndex = 0
  /\ nbrValues = <<>>
  /\ minValue = Infinity
  /\ maxValue = NegInfinity
  /\ posted = NoMsg

\* pixels in one run, beyond the one-pixel runs
MaxPixels == 2

\* raw samples: zero, the sums around 10, reflectances, the limit 65000 and
\* the values above it
Samples == {0, 1, 4, 5, 6, 7, 20, 2000, 4000, 9000, 9500, 65000, 65001, 65535}

\* pairs of samples for the runs over several pixels, one of them with a
\* negative sample of a signed raster
SamplePairs == {<<4000, 2000>>, <<0, 500>>, <<9000, 9500>>, <<4, 6>>, <<5, 6>>,
                <<65001, 3000>>, <<0 - 5, 20>>, <<3000, 3000>>}

\* one pair of samples in each severity class and on the class limits -0.7,
\* -0.25 and 0.7
ClassPairs == {<<1000, 9000>>, <<1500, 8500>>, <<2000, 8000>>, <<3000, 6000>>,
               <<3000, 5000>>, <<4000, 3000>>, <<9000, 3000>>, <<8500, 1500>>,
               <<9000, 1000>>}

EData(nir, swir, w, h) ==
  [nirData |-> nir, swirData |-> swir, windowWidth |-> w, windowHeight |-> h,
   noDataValue |-> Rat(noDataValue, 1)]

\* the messages calculateNBR can post: buffers of windowWidth * windowHeight
\* samples, and a SWIR buffer shorter than the NIR one (read from a smaller
\* window without resampling)
WorkerInputs ==
  {EData(<<a>>, <<b>>, 1, 1) : a \in Samples, b \in Samples}
  \cup UNION {{EData([i \in 1..n |-> f[i][1]], [i \in 1..n |-> f[i][2]], n, 1) :
                 f \in [1..n -> SamplePairs]} : n \in 0..MaxPixels}
  \cup {EData(<<4000, 0, 9000>>, <<2000, 500, 9500>>, 3, 1)}
  \cup {EData(<<p[1], q[1]>>, <<p[2]>>, 2, 1) : p \in SamplePairs, q \in SamplePairs}
  \cup {EData(<<p[1]>>, <<p[2]>>, 1, 1) : p \in ClassPairs}
  \cup {EData(<<p[1], 0, q[1]>>, <<p[2], 500, q[2]>>, 3, 1) :
           p \in ClassPairs, q \in {<<3000, 5000>>, <<9000, 1000>>}}

\* the worker receives a message: new Float32Array(windowWidth * windowHeight)
WorkerInit ==
  /\ edata \in WorkerInputs
  /\ pixelIndex = 0
  /\ nbrValues = [i \in 1..(edata.windowWidth * edata.windowHeight) |-> F32(Rat(0, 1))]
  /\ minValue = Infinity
  /\ maxValue = NegInfinity
  /\ posted = NoMsg

\* one iteration of the for loop
WorkerPixel ==
  /\ posted = NoMsg
  /\ pixelIndex < edata.windowWidth * edata.windowHeight
  /\ LET r == Pixel(Sample(edata.nirData, pixelIndex),
                    Sample(edata.swirData, pixelIndex), edata.noDataValue)
     IN /\ nbrValues' = [nbrValues EXCEPT ![pixelIndex + 1] = r.stored]
        /\ minValue' = IF r.valid /\ Lt(r.nbrValue, minValue) THEN r.nbrValue ELSE minValue
        /\ maxValue' = IF r.valid /\ Lt(maxValue, r.nbrValue) THEN r.nbrValue ELSE maxValue
  /\ pixelIndex' = pixelIndex + 1
  /\ UNCHANGED <<edata, posted, coordVars, windowVars, auxVars>>

\* after the loop: self.postMessage({type: 'complete', ...})
WorkerComplete ==
  /\ posted = NoMsg
  /\ edata # NoData
  /\ pixelIndex >= edata.windowWidth * edata.windowHeight
  /\ posted' = [type |-> "complete", nbrValues |-> nbrValues,
                stats |-> Stats(minValue, maxValue),
                width |-> edata.windowWidth, height |-> edata.windowHeight]
  /\ UNCHANGED <<edata, pixelIndex, nbrValues, minValue, maxValue, coordVars, windowVars, auxVars>>

\* --------------------------------------- calculateNBR: windows and buffers
\* ol/proj transformExtent between EPSG:3857 (metres) and EPSG:4326
\* (degrees), both axes taken as linear: MetresPerDegree metres to a degree
MetresPerDegree == 111319

toWgs84(e) == [i \in 1..4 |-> e[i] \div MetresPerDegree]
fromWgs84(e) == [i \in 1..4 |-> e[i] * MetresPerDegree]

\* Math.floor(a / b) and Math.ceil(a / b), b > 0
FloorDiv(a, b) == a \div b
CeilDiv(a, b) == 0 - ((0 - a) \div b)

Max(a, b) == IF a > b THEN a ELSE b
Min(a, b) == IF a < b THEN a ELSE b

\* more than 4000000 pixels, more than 2000000 pixels
VeryLargePixelCount == 4000000
LargePixelCount == 2000000

\* the thresholds taken inclusively
calculateDownsamplingFactorInclusive(width, height) ==
  LET pixelCount == width * height
  IN IF pixelCount >= VeryLargePixelCount THEN 4
     ELSE IF pixelCount >= LargePixelCount THEN 2
     ELSE 1

calculateDownsamplingFactor(width, height) ==
  LET pixelCount == width * height
  IN IF pixelCount > VeryLargePixelCount THEN 4
     ELSE IF pixelCount > LargePixelCount THEN 2
     ELSE 1

\* the window as clamped, without the fallback
keepWindow(w, width, height) == w

\* 'Invalid window dimensions, using full image'
validateWindow(w, width, height) ==
  IF w[3] <= w[1] \/ w[4] <= w[2] THEN <<0, 0, width, height>> ELSE w

\* [nirX1, nirY1, nirX2, nirY2]: the extent mapped to pixels of the NIR
\* image, clamped, and replaced by the full image when degenerate
nirWindow(mapBboxWgs84, nirBbox, nirImageWidth, nirImageHeight) ==
  LET dx == nirBbox[3] - nirBbox[1]
      dy == nirBbox[4] - nirBbox[2]
      nirX1 == Max(0, FloorDiv(nirImageWidth * (mapBboxWgs84[1] - nirBbox[1]), dx))
      nirY1 == Max(0, FloorDiv(nirImageHeight * (nirBbox[4] - mapBboxWgs84[4]), dy))
      nirX2 == Min(nirImageWidth,
                   CeilDiv(nirImageWidth * (mapBboxWgs84[3] - nirBbox[1]), dx))
      nirY2 == Min(nirImageHeight,
                   CeilDiv(nirImageHeight * (nirBbox[4] - mapBboxWgs84[2]), dy))
  IN validateWindow(<<nirX1, nirY1, nirX2, nirY2>>, nirImageWidth, nirImageHeight)

\* the SWIR window with every bound rounded down
swirWindowFloor(nw, nirImageWidth, nirImageHeight, swirImageWidth, swirImageHeight) ==
  <<FloorDiv(nw[1] * swirImageWidth, nirImageWidth),
    FloorDiv(nw[2] * swirImageHeight, nirImageHeight),
    FloorDiv(nw[3] * swirImageWidth, nirImageWidth),
    FloorDiv(nw[4] * swirImageHeight, nirImageHeight)>>

\* [swirX1, swirY1, swirX2, swirY2]: the NIR window scaled to the SWIR image
swirWindow(nw, nirImageWidth, nirImageHeight, swirImageWidth, swirImageHeight) ==
  <<FloorDiv(nw[1] * swirImageWidth, nirImageWidth),
    FloorDiv(nw[2] * swirImageHeight, nirImageHeight),
    CeilDiv(nw[3] * swirImageWidth, nirImageWidth),
    CeilDiv(nw[4] * swirImageHeight, nirImageHeight)>>

\* image.readRasters(options): the samples of band 0, as many as the window
\* holds, or width * height of them when the options ask for a resampled size
readRastersLength(options) ==
  IF options.resample THEN options.width * options.height
  ELSE (options.window[3] - options.window[1]) * (options.window[4] - options.window[2])

readOptions(window, downsamplingFactor, actualWidth, actualHeight) ==
  [window |-> window, resample |-> downsamplingFactor > 1,
   width |-> actualWidth, height |-> actualHeight]

\* the bounding box of the NIR image, in degrees
NirBboxes == {<<10, 20, 14, 24>>}

\* requested longitude and latitude ranges, in degrees: inside the image,
\* across its edges, covering it, exactly it, outside it, and empty
LonRanges == {<<11, 13>>, <<8, 12>>, <<12, 16>>, <<8, 16>>, <<10, 14>>,
              <<15, 17>>, <<5, 8>>, <<12, 12>>, <<14, 16>>}
LatRanges == {<<21, 23>>, <<18, 22>>, <<22, 26>>, <<18, 26>>, <<20, 24>>,
              <<25, 27>>, <<15, 18>>, <<22, 22>>, <<24, 26>>}

\* <<nirImageWidth, nirImageHeight, swirImageWidth, swirImageHeight>>
ImageSizes == {<<4, 4, 4, 4>>, <<4, 4, 2, 2>>, <<3, 5, 5, 3>>, <<3, 5, 2, 2>>,
               <<2500, 2000, 2500, 2000>>, <<2500, 2000, 1250, 1000>>,
               <<2000, 2000, 1000, 1000>>, <<2001, 2000, 2001, 2000>>,
               <<1500, 1500, 750, 750>>, <<2000, 1000, 1000, 500>>,
               <<2001, 1000, 2001, 1000>>, <<1000, 1000, 500, 500>>}

GeoInputs ==
  {[extent |-> fromWgs84(<<lon[1], lat[1], lon[2], lat[2]>>), nirBbox |-> b,
    nirImageWidth |-> s[1], nirImageHeight |-> s[2],
    swirImageWidth |-> s[3], swirImageHeight |-> s[4]] :
     lon \in LonRanges, lat \in LatRanges, b \in NirBboxes, s \in ImageSizes}

NoGeo == [extent |-> <<0, 0, 0, 0>>, nirBbox |-> <<0, 0, 0, 0>>,
          nirImageWidth |-> 0, nirImageHeight |-> 0,
          swirImageWidth |-> 0, swirImageHeight |-> 0]

NoWin == [stage |-> "none", mapBboxWgs84 |-> <<0, 0, 0, 0>>,
          nir |-> <<0, 0, 0, 0>>, swir |-> <<0, 0, 0, 0>>,
          windowWidth |-> 0, windowHeight |-> 0, downsamplingFactor |-> 0,
          actualWidth |-> 0, actualHeight |-> 0,
          nirLength |-> 0, swirLength |-> 0,
          message |-> [windowWidth |-> 0, windowHeight |-> 0],
          nbrExtent |-> <<0, 0, 0, 0>>]

WindowIdle == geo = NoGeo /\ win = NoWin

\* both images are open
WindowInit == geo \in GeoInputs /\ win = NoWin

\* from transformExtent to the read options: the synchronous part between
\* the awaits of getImage and readRasters
ResolveWindows ==
  /\ geo # NoGeo
  /\ win.stage = "none"
  /\ LET mapBboxWgs84 == toWgs84(geo.extent)
         nw == nirWindow(mapBboxWgs84, geo.nirBbox, geo.nirImageWidth, geo.nirImageHeight)
         windowWidth == nw[3] - nw[1]
         windowHeight == nw[4] - nw[2]
         downsamplingFactor == calculateDownsamplingFactor(windowWidth, windowHeight)
         actualWidth == IF downsamplingFactor > 1
                          THEN CeilDiv(windowWidth, downsamplingFactor) ELSE windowWidth
         actualHeight == IF downsamplingFactor > 1
                           THEN CeilDiv(windowHeight, downsamplingFactor) ELSE windowHeight
     IN win' = [win EXCEPT
                  !.stage = "resolved",
                  !.mapBboxWgs84 = mapBboxWgs84,
                  !.nir = nw,
                  !.swir = swirWindow(nw, geo.nirImageWidth, geo.nirImageHeight,
                                      geo.swirImageWidth, geo.swirImageHeight),
                  !.windowWidth = windowWidth,
                  !.windowHeight = windowHeight,
                  !.downsamplingFactor = downsamplingFactor,
                  !.actualWidth = actualWidth,
                  !.actualHeight = actualHeight]
  /\ UNCHANGED <<geo, coordVars, workerVars, auxVars>>

\* both readRasters calls resolve
ReadRasters ==
  /\ win.stage = "resolved"
  /\ win' = [win EXCEPT
               !.stage = "read",
               !.nirLength = readRastersLength(readOptions(win.nir,
                               win.downsamplingFactor, win.actualWidth, win.actualHeight)),
               !.swirLength = readRastersLength(readOptions(win.swir,
                               win.downsamplingFactor, win.actualWidth, win.actualHeight))]
  /\ UNCHANGED <<geo, coordVars, workerVars, auxVars>>

\* workerRef.current.postMessage({nirData, swirData, windowWidth: actualWidth,
\* windowHeight: actualHeight, noDataValue})
PostBuffers ==
  /\ win.stage = "read"
  /\ win' = [win EXCEPT !.stage = "posted",
                        !.message = [windowWidth |-> win.actualWidth,
                                     windowHeight |-> win.actualHeight]]
  /\ UNCHANGED <<geo, coordVars, workerVars, auxVars>>

\* the 'complete' handler: the extent createNBRLayer is given
InstallLayer ==
  /\ win.stage = "posted"
  /\ win' = [win EXCEPT !.stage = "installed",
                        !.nbrExtent = fromWgs84(win.mapBboxWgs84)]
  /\ UNCHANGED <<geo, coordVars, workerVars, auxVars>>

\* ------------------------------------------------------------ initial states
\* --------------------------------------------- colours and the canvas
\* NBR_COLOR_MAP
NBR_COLOR_MAP ==
  [severe |-> <<220, 0, 0, 255>>, high |-> <<255, 0, 0, 255>>,
   moderateHigh |-> <<255, 50, 0, 255>>, moderate |-> <<255, 150, 0, 255>>,
   low |-> <<255, 255, 0, 255>>, regrowthLow |-> <<50, 180, 50, 255>>,
   regrowthMod |-> <<0, 100, 0, 255>>, regrowthHigh |-> <<0, 50, 0, 255>>,
   nodata |-> <<0, 0, 0, 0>>]

\* the literals of the comparisons
SevereLimit == Rat(0 - 7, 10)
HighLimit == Rat(0 - 44, 100)
ModerateHighLimit == Rat(0 - 25, 100)
ModerateLimit == Rat(0 - 1, 10)
LowLimit == Rat(1, 10)
RegrowthLowLimit == Rat(27, 100)
RegrowthModLimit == Rat(44, 100)
RegrowthHighLimit == Rat(7, 10)

\* the literals, in the order of the comparisons
ColorLimits ==
  {SevereLimit, HighLimit, ModerateHighLimit, ModerateLimit, LowLimit,
   RegrowthLowLimit, RegrowthModLimit, RegrowthHighLimit}

\* the chain of returns of getNBRColor: isNoData is nbrValue === -9999,
\* lt[t] is nbrValue < t
ColorChain(isNoData, lt) ==
  IF isNoData THEN NBR_COLOR_MAP.nodata
  ELSE IF lt[SevereLimit] THEN NBR_COLOR_MAP.severe
  ELSE IF lt[HighLimit] THEN NBR_COLOR_MAP.high
  ELSE IF lt[ModerateHighLimit] THEN NBR_COLOR_MAP.moderateHigh
  ELSE IF lt[ModerateLimit] THEN NBR_COLOR_MAP.moderate
  ELSE IF lt[LowLimit] THEN NBR_COLOR_MAP.low
  ELSE IF lt[RegrowthLowLimit] THEN NBR_COLOR_MAP.regrowthLow
  ELSE IF lt[RegrowthModLimit] THEN NBR_COLOR_MAP.regrowthMod
  ELSE IF lt[RegrowthHighLimit] THEN NBR_COLOR_MAP.regrowthHigh
  ELSE NBR_COLOR_MAP.nodata

\* the store of x into a Float32Array rounds the magnitude of x up
F32RoundsUp(x) ==
  x.num # 0 /\ LET nz == Normalize(Abs(x.num), x.den, 0)
                   mr == Mantissa(nz[1] - nz[2], nz[2], 1, MantissaBits)
               IN 2 * mr[2] > nz[2] \/ (2 * mr[2] = nz[2] /\ mr[1] % 2 = 1)

\* F32(x) < x
F32Below(x) == F32Inexact(x) /\ (IF x.num < 0 THEN F32RoundsUp(x) ELSE ~F32RoundsUp(x))

\* f < t for an element f of a Float32Array and a number t: no element lies
\* strictly between t and the element nearest to t
F32LtNum(f, t) == F32Lt(f, F32(t)) \/ (f = F32(t) /\ F32Below(t))

\* f === t
F32EqNum(f, t) == f = F32(t) /\ ~F32Inexact(t)

\* getNBRColor of a number
getNBRColorNumber(x) ==
  ColorChain(StrictEq(x, Rat(noDataValue, 1)), [t \in ColorLimits |-> Lt(x, t)])

\* getNBRColor with <= in place of <
getNBRColorInclusive(f) ==
  ColorChain(F32EqNum(f, Rat(noDataValue, 1)),
             [t \in ColorLimits |-> F32LtNum(f, t) \/ F32EqNum(f, t)])

\* getNBRColor of nbrValues[i]
getNBRColor(f) ==
  ColorChain(F32EqNum(f, Rat(noDataValue, 1)),
             [t \in ColorLimits |-> F32LtNum(f, t)])

\* getNBRColor of the synchronous variant, which has no test for -9999
getNBRColorSync(f) == ColorChain(FALSE, [t \in ColorLimits |-> F32LtNum(f, t)])

\* a store into a Uint8ClampedArray
Uint8Clamped(b) == Max(0, Min(255, b))

\* the bytes of the canvas after the loop over the values: byte 4i + c (from
\* 0) is component c of colors[i], the colour of values[i]
ImageBytes(colors) ==
  [j \in 1..(4 * Len(colors)) |->
     Uint8Clamped(colors[((j - 1) \div 4) + 1][((j - 1) % 4) + 1])]

\* createNBRLayer draws the values of the 'complete' message
DrawPixels ==
  /\ posted.type = "complete"
  /\ pixelData = <<>>
  /\ pixelData' = ImageBytes([i \in 1..Len(posted.nbrValues) |->
                               getNBRColor(posted.nbrValues[i])])
  /\ UNCHANGED <<syncData, keyReq, chunk, mapLayers, olmap, page>>
  /\ UNCHANGED <<coordVars, workerVars, windowVars>>

\* the synchronous variant draws nbrArray, filled by the same loop body, once
\* its loop over the window is through
DrawPixelsSync ==
  /\ edata # NoData
  /\ pixelIndex >= edata.windowWidth * edata.windowHeight
  /\ syncData = <<>>
  /\ syncData' = ImageBytes([i \in 1..Len(nbrValues) |->
                              getNBRColorSync(nbrValues[i])])
  /\ UNCHANGED <<pixelData, keyReq, chunk, mapLayers, olmap, page>>
  /\ UNCHANGED <<coordVars, workerVars, windowVars>>

\* ------------------------------------------- the key of a calculation
\* band URLs as the STAC items give them (hyphens occur in them), and extents
\* with a negative and a positive easting
KeyNirUrls == {"n", "n-x"}
KeySwirUrls == {"x-s", "s", "s-"}
KeyExtents == {<<5, 0, 10, 10>>, <<0 - 5, 0, 10, 10>>}

KeyRequests ==
  {[nirUrl |-> n, swirUrl |-> w, extent |-> e] :
     n \in KeyNirUrls, w \in KeySwirUrls, e \in KeyExtents}

NoRequest == [nirUrl |-> NULL, swirUrl |-> NULL, extent |-> <<>>]

\* a computation is cached (cacheRef.current.key) or in progress
\* (calculationKey) for the request held; no request has been looked up yet
KeyInit ==
  keyReq \in {[held |-> r, key |-> currentKey(r.nirUrl, r.swirUrl, r.extent),
               how |-> h, req |-> NoRequest, match |-> FALSE] :
                r \in KeyRequests, h \in {"cache", "progress"}}

\* calculateNBR for request r: cacheRef.current.key === currentKey
KeyCacheLookup(r) ==
  /\ keyReq.how = "cache" /\ keyReq.req = NoRequest
  /\ keyReq' = [keyReq EXCEPT !.req = r,
                  !.match = (keyReq.key = currentKey(r.nirUrl, r.swirUrl, r.extent))]
  /\ UNCHANGED <<pixelData, syncData, chunk, mapLayers, olmap, page>>
  /\ UNCHANGED <<coordVars, workerVars, windowVars>>

\* calculateNBR for request r: calculationKey === currentKey
KeyProgressLookup(r) ==
  /\ keyReq.how = "progress" /\ keyReq.req = NoRequest
  /\ keyReq' = [keyReq EXCEPT !.req = r,
                  !.match = (keyReq.key = currentKey(r.nirUrl, r.swirUrl, r.extent))]
  /\ UNCHANGED <<pixelData, syncData, chunk, mapLayers, olmap, page>>
  /\ UNCHANGED <<coordVars, workerVars, windowVars>>

\* --------------------------------------------- the worker's chunk loop
\* const chunkSize = 10000
chunkSize == 10000
\* progress is reported if windowWidth * windowHeight > 100000
progressThreshold == 100000

\* windowWidth, windowHeight of the messages: an empty window, one pixel, one
\* chunk exactly, the threshold and the first size above it, a size whose
\* percentages fall on halves, and sizes of many chunks
ChunkDims == {<<0, 0>>, <<1, 1>>, <<100, 100>>, <<250, 400>>, <<100001, 1>>,
              <<800, 500>>, <<500, 625>>, <<1000, 1000>>}

\* Math.round(100 * n / d) of the double product: the nearest integer, and at
\* an exact half either neighbour, as the double quotient n / d times 100 may
\* fall on either side of the half
RoundPercent(n, d) ==
  IF (200 * n) % (2 * d) = d
    THEN {FloorDiv(100 * n, d), FloorDiv(100 * n, d) + 1}
    ELSE {FloorDiv(200 * n + d, 2 * d)}

\* the percentage taken at the start of the chunk
progressAtStart(index, endIndex, total) == RoundPercent(index, total)

\* Math.round((endIndex / (windowWidth * windowHeight)) * 100)
progressOf(index, endIndex, total) == RoundPercent(endIndex, total)

ChunkTotal == chunk.windowWidth * chunk.windowHeight

\* the worker receives a message
ChunkInit ==
  chunk \in {[windowWidth |-> d[1], windowHeight |-> d[2], pixelIndex |-> 0,
              progress |-> 0 - 1, progressCount |-> 0, completeCount |-> 0,
              last |-> "none"] : d \in ChunkDims}

\* one pass of the while loop: the pixels of the chunk, then the progress
\* message
ChunkStep ==
  /\ chunk.completeCount = 0
  /\ chunk.pixelIndex < ChunkTotal
  /\ LET endIndex == Min(chunk.pixelIndex + chunkSize, ChunkTotal)
     IN IF ChunkTotal > progressThreshold
          THEN \E p \in progressOf(chunk.pixelIndex, endIndex, ChunkTotal) :
                 chunk' = [chunk EXCEPT !.pixelIndex = endIndex, !.progress = p,
                             !.progressCount = @ + 1, !.last = "progress"]
          ELSE chunk' = [chunk EXCEPT !.pixelIndex = endIndex]
  /\ UNCHANGED <<pixelData, syncData, keyReq, mapLayers, olmap, page>>
  /\ UNCHANGED <<coordVars, workerVars, windowVars>>

\* after the loop: self.postMessage({type: 'complete', ...})
ChunkComplete ==
  /\ chunk.completeCount = 0
  /\ chunk.pixelIndex >= ChunkTotal
  /\ chunk' = [chunk EXCEPT !.completeCount = @ + 1, !.last = "complete"]
  /\ UNCHANGED <<pixelData, syncData, keyReq, mapLayers, olmap, page>>
  /\ UNCHANGED <<coordVars, workerVars, windowVars>>

\* ------------------------------------------- the map's layer collection
\* NBR layers created in one behaviour
MaxLayers == 3

\* the images shown as satellite layer, by number
SatelliteUrls == {1, 2}

Layer(name, id) == [name |-> name, id |-> id]

\* array.splice(i, 1) (i from 1)
RemoveAt(arr, i) == [k \in 1..(Len(arr) - 1) |-> IF k < i THEN arr[k] ELSE arr[k + 1]]

\* layers.find(layer => layer.get('name') === name): its index, 0 if none
FindLayer(arr, name) ==
  IF \E k \in 1..Len(arr) : arr[k].name = name
    THEN CHOOSE k \in 1..Len(arr) :
           arr[k].name = name /\ \A j \in 1..(k - 1) : arr[j].name # name
    ELSE 0

\* map.removeLayer(layer) of the first layer of that name, if there is one
RemoveFound(arr, name) ==
  IF FindLayer(arr, name) = 0 THEN arr ELSE RemoveAt(arr, FindLayer(arr, name))

\* createNBRLayer without the removal of existing NBR layers
RemoveNBRLayersNone(arr, i) == arr

RECURSIVE RemoveNBRLayers(_, _)
\* for (const layer of layers) if (name === 'NBRLayer') removeLayer(layer),
\* over the collection's own array: the iterator moves on to index i + 1 of
\* the array as it is after the removal
RemoveNBRLayers(arr, i) ==
  IF i > Len(arr) THEN arr
  ELSE IF arr[i].name = "NBRLayer" THEN RemoveNBRLayers(RemoveAt(arr, i), i + 1)
  ELSE RemoveNBRLayers(arr, i + 1)

\* the map as OLMap sets it up: base layer first, fire perimeters above
LayersInit ==
  mapLayers = [array |-> <<Layer("base", 0), Layer("firePerimeters", 0)>>, made |-> 0]

\* createNBRLayer, called by the 'complete' handler or on a cache hit: remove
\* the NBR layers, add the new one, move the fire perimeters to the top
LayerCreate(from) ==
  /\ mapLayers.made < MaxLayers
  /\ LET id == mapLayers.made + 1
         removed == RemoveNBRLayers(mapLayers.array, 1)
         added == Append(removed, Layer("NBRLayer", id))
         fp == FindLayer(added, "firePerimeters")
         top == IF fp = 0 THEN added ELSE Append(RemoveAt(added, fp), added[fp])
     IN mapLayers' = [array |-> top, made |-> id]
  /\ UNCHANGED <<pixelData, syncData, keyReq, chunk, olmap, page>>
  /\ UNCHANGED <<coordVars, workerVars, windowVars>>

\* the visibility effect of NBRCalculator, and the toggle effect of OLMap:
\* remove the layer found under the name 'NBRLayer'
LayerHide(by) ==
  /\ FindLayer(mapLayers.array, "NBRLayer") # 0
  /\ mapLayers' = [mapLayers EXCEPT !.array = RemoveFound(@, "NBRLayer")]
  /\ UNCHANGED <<pixelData, syncData, keyReq, chunk, olmap, page>>
  /\ UNCHANGED <<coordVars, workerVars, windowVars>>

\* addCogImageryToMap: the satellite layer is removed if present and the
\* layer of the image added on top
SatelliteAdd(url) ==
  /\ mapLayers' = [mapLayers EXCEPT
                     !.array = Append(RemoveFound(@, "satellite"), Layer("satellite", url))]
  /\ UNCHANGED <<pixelData, syncData, keyReq, chunk, olmap, page>>
  /\ UNCHANGED <<coordVars, workerVars, windowVars>>

\* satellite toggle off: the satellite layer is removed
SatelliteRemove ==
  /\ FindLayer(mapLayers.array, "satellite") # 0
  /\ mapLayers' = [mapLayers EXCEPT !.array = RemoveFound(@, "satellite")]
  /\ UNCHANGED <<pixelData, syncData, keyReq, chunk, olmap, page>>
  /\ UNCHANGED <<coordVars, workerVars, windowVars>>

\* the fire points arrive: the vector layer is created and added, once
FiresAdd ==
  /\ FindLayer(mapLayers.array, "fires") = 0
  /\ mapLayers' = [mapLayers EXCEPT !.array = Append(@, Layer("fires", 0))]
  /\ UNCHANGED <<pixelData, syncData, keyReq, chunk, olmap, page>>
  /\ UNCHANGED <<coordVars, workerVars, windowVars>>

\* the basemap is replaced: layers.removeAt(0), layers.insertAt(0, newBaseLayer)
BaseReplace ==
  /\ Len(mapLayers.array) > 0
  /\ mapLayers' = [mapLayers EXCEPT
                     !.array = <<Layer("base", 1 - @[1].id)>> \o Tail(@)]
  /\ UNCHANGED <<pixelData, syncData, keyReq, chunk, olmap, page>>
  /\ UNCHANGED <<coordVars, workerVars, windowVars>>

\* ------------------------------------- the NBRMap page and the OLMap
\* fires of the selector, images of the STAC catalogue, extents of the view
Fires == {"F1", "F2"}
Images == {1, 2}
MapExtents == {<<0, 0, 10, 10>>, <<20, 0, 30, 10>>}
NoImage == 0
NullExtent == <<>>

\* change events of one mounted NBRToggle, STAC searches of one behaviour
MaxChanges == 2
MaxFetches == 2

\* the hrefs of the assets of image i
visualUrl(i) == <<"v1", "v2">>[i]
nirB08Url(i) == <<"n1", "n2">>[i]
swirB12Url(i) == <<"s1", "s2">>[i]

\* what a STAC search gives: the latest image with its bands, or nothing
\* (no feature, or an error)
StacResults == Images \cup {NoImage}

\* visible={showNBR && !!nirUrl && !!swirUrl}
Visible(pg, om) == pg.showNBR /\ om.nirUrl # NULL /\ om.swirUrl # NULL

\* extent={nbrCalculationExtent || currentMapExtent}
HandedExtent(om) ==
  IF om.nbrCalculationExtent # NullExtent THEN om.nbrCalculationExtent
  ELSE om.currentMapExtent

\* the dependency arrays of the effects, as of a render
SatelliteDeps(pg, om) == <<pg.showSatelliteImagery, pg.selectedFire, om.currentMapExtent>>
NbrToggleDeps(pg, om) == <<pg.showNBR, om.nirUrl, om.swirUrl, om.currentMapExtent>>
ResetDeps(pg, om) == <<pg.selectedFire, om.sentinelUrl>>
VisibilityDeps(pg, om) == <<Visible(pg, om)>>

DepsOf(pg, om) ==
  [satellite |-> SatelliteDeps(pg, om), nbrToggle |-> NbrToggleDeps(pg, om),
   reset |-> ResetDeps(pg, om), visibility |-> VisibilityDeps(pg, om)]

\* the page after mount: no fire selected, both toggles off
PageInit ==
  page = [selectedFire |-> NULL, showSatelliteImagery |-> FALSE, showNBR |-> FALSE,
          isNBRLoading |-> FALSE, isNBRCalculated |-> FALSE,
          changes |-> 0, forwarded |-> 0]

\* the OLMap after mount, the initial extent set and the effects run
OLMapInit ==
  \E e \in MapExtents :
    olmap = [currentMapExtent |-> e, nirUrl |-> NULL, swirUrl |-> NULL,
             sentinelUrl |-> NULL, satelliteLayerRef |-> NoImage,
             initialNbrExtentRef |-> NullExtent, nbrCalculationExtent |-> NullExtent,
             nbrLayer |-> FALSE, pending |-> 0, started |-> 0,
             seen |-> [satellite |-> <<FALSE, NULL, e>>,
                       nbrToggle |-> <<FALSE, NULL, NULL, e>>,
                       reset |-> <<NULL, NULL>>, visibility |-> <<FALSE>>]]

\* the effects of the last render have run
Quiescent == olmap.seen = DepsOf(page, olmap)

\* handleFireSelect(fireNumber); the toggles are rendered while a fire is
\* selected, so the NBRToggle and its state go when the selection is cleared
handleFireSelect(pg, fireNumber) ==
  LET reset == fireNumber # pg.selectedFire
  IN [pg EXCEPT !.selectedFire = fireNumber,
                !.showSatelliteImagery = IF reset THEN FALSE ELSE @,
                !.showNBR = IF reset THEN FALSE ELSE @,
                !.isNBRCalculated = IF fireNumber = NULL THEN FALSE ELSE @,
                !.changes = IF fireNumber = NULL THEN 0 ELSE @,
                !.forwarded = IF fireNumber = NULL THEN 0 ELSE @]

\* handleSatelliteToggle without the reset of NBR
handleSatelliteToggleOnly(pg) ==
  [pg EXCEPT !.showSatelliteImagery = ~pg.showSatelliteImagery]

\* handleSatelliteToggle
handleSatelliteToggle(pg) ==
  [pg EXCEPT !.showSatelliteImagery = ~pg.showSatelliteImagery,
             !.showNBR = IF pg.showSatelliteImagery THEN FALSE ELSE @]

\* handleNBRToggle
handleNBRToggle(pg) == [pg EXCEPT !.showNBR = ~pg.showNBR]

\* handleToggle of NBRToggle without the isNBRCalculated test
handleToggleAlways(pg) ==
  [handleNBRToggle(pg) EXCEPT !.isNBRCalculated = TRUE, !.forwarded = @ + 1,
                              !.changes = @ + 1]

\* handleToggle of NBRToggle, on a change event of the checkbox
handleToggle(pg) ==
  IF ~pg.isNBRCalculated
    THEN [handleNBRToggle(pg) EXCEPT !.isNBRCalculated = TRUE, !.forwarded = @ + 1,
                                     !.changes = @ + 1]
    ELSE [pg EXCEPT !.changes = @ + 1]

\* the user picks a fire in the selector, or clears the selection
FireSelect(fireNumber) ==
  /\ Quiescent
  /\ page' = handleFireSelect(page, fireNumber)
  /\ UNCHANGED <<pixelData, syncData, keyReq, chunk, mapLayers, olmap>>
  /\ UNCHANGED <<coordVars, workerVars, windowVars>>

\* the user clicks the satellite toggle
SatelliteChange ==
  /\ Quiescent
  /\ page.selectedFire # NULL
  /\ page' = handleSatelliteToggle(page)
  /\ UNCHANGED <<pixelData, syncData, keyReq, chunk, mapLayers, olmap>>
  /\ UNCHANGED <<coordVars, workerVars, windowVars>>

\* the user clicks the NBR checkbox, which is rendered while a fire is
\* selected and disabled while !showSatelliteImagery or isLoading
NBRChange ==
  /\ Quiescent
  /\ page.selectedFire # NULL
  /\ page.showSatelliteImagery /\ ~page.isNBRLoading
  /\ page.changes < MaxChanges
  /\ page' = handleToggle(page)
  /\ UNCHANGED <<pixelData, syncData, keyReq, chunk, mapLayers, olmap>>
  /\ UNCHANGED <<coordVars, workerVars, windowVars>>

\* the visible NBRCalculator starts a computation: onLoadingChange(true)
NbrLoadingStart ==
  /\ Quiescent
  /\ Visible(page, olmap) /\ ~page.isNBRLoading /\ ~olmap.nbrLayer
  /\ page' = [page EXCEPT !.isNBRLoading = TRUE]
  /\ UNCHANGED <<pixelData, syncData, keyReq, chunk, mapLayers, olmap>>
  /\ UNCHANGED <<coordVars, workerVars, windowVars>>

\* the computation ends, with a layer ('complete') or without (catch):
\* onLoadingChange(false)
NbrLoadingEnd(withLayer) ==
  /\ Quiescent
  /\ page.isNBRLoading
  /\ withLayer => Visible(page, olmap)
  /\ page' = [page EXCEPT !.isNBRLoading = FALSE]
  /\ olmap' = [olmap EXCEPT !.nbrLayer = withLayer]
  /\ UNCHANGED <<pixelData, syncData, keyReq, chunk, mapLayers>>
  /\ UNCHANGED <<coordVars, workerVars, windowVars>>

\* moveend: setCurrentMapExtent(extent)
MapMove(e) ==
  /\ Quiescent
  /\ e # olmap.currentMapExtent
  /\ olmap' = [olmap EXCEPT !.currentMapExtent = e]
  /\ UNCHANGED <<pixelData, syncData, keyReq, chunk, mapLayers, page>>
  /\ UNCHANGED <<coordVars, workerVars, windowVars>>

\* the STAC search resolves and fetchSentinelImagery goes on: with an image,
\* the band URLs and the visual URL are set and addCogImageryToMap puts its
\* layer on the map in place of the present one; else setSentinelUrl(null)
StacResolves(result) ==
  /\ Quiescent
  /\ olmap.pending > 0
  /\ olmap' = IF result # NoImage
                THEN [olmap EXCEPT !.pending = @ - 1,
                                   !.nirUrl = nirB08Url(result),
                                   !.swirUrl = swirB12Url(result),
                                   !.sentinelUrl = visualUrl(result),
                                   !.satelliteLayerRef = result]
                ELSE [olmap EXCEPT !.pending = @ - 1, !.sentinelUrl = NULL]
  /\ UNCHANGED <<pixelData, syncData, keyReq, chunk, mapLayers, page>>
  /\ UNCHANGED <<coordVars, workerVars, windowVars>>

\* the visibility effect of the NBRCalculator child, which runs before the
\* effects of OLMap: the NBR layer is removed when visible is false
VisibilityEffect(pg, om, cur) ==
  IF om.seen.visibility # VisibilityDeps(pg, om) /\ ~Visible(pg, om)
    THEN [cur EXCEPT !.nbrLayer = FALSE]
    ELSE cur

\* the satellite toggle effect: on, fetchSentinelImagery resets the band
\* URLs and sends the search; off, the layer is removed and the URLs are
\* cleared if there is a satellite layer
SatelliteEffect(pg, om, cur) ==
  IF om.seen.satellite = SatelliteDeps(pg, om) THEN cur
  ELSE IF pg.showSatelliteImagery
    THEN [cur EXCEPT !.nirUrl = NULL, !.swirUrl = NULL,
                     !.pending = @ + 1, !.started = @ + 1]
  ELSE IF cur.satelliteLayerRef # NoImage
    THEN [cur EXCEPT !.satelliteLayerRef = NoImage, !.sentinelUrl = NULL,
                     !.nirUrl = NULL, !.swirUrl = NULL]
  ELSE cur

\* the NBR toggle effect that stores the extent whenever NBR is on
NbrToggleEffectStoresAlways(pg, om, cur) ==
  IF om.seen.nbrToggle = NbrToggleDeps(pg, om) THEN cur
  ELSE IF pg.showNBR /\ om.nirUrl # NULL /\ om.swirUrl # NULL
    THEN [cur EXCEPT !.initialNbrExtentRef = om.currentMapExtent,
                     !.nbrCalculationExtent = om.currentMapExtent]
  ELSE IF ~pg.showNBR /\ cur.nbrLayer
    THEN [cur EXCEPT !.nbrLayer = FALSE]
  ELSE cur

\* the NBR toggle effect: on with both URLs, the current extent is stored if
\* none is; off with an NBR layer on the map, the layer is removed
NbrToggleEffect(pg, om, cur) ==
  IF om.seen.nbrToggle = NbrToggleDeps(pg, om) THEN cur
  ELSE IF pg.showNBR /\ om.nirUrl # NULL /\ om.swirUrl # NULL
    THEN IF cur.initialNbrExtentRef = NullExtent /\ om.currentMapExtent # NullExtent
           THEN [cur EXCEPT !.initialNbrExtentRef = om.currentMapExtent,
                            !.nbrCalculationExtent = om.currentMapExtent]
           ELSE cur
  ELSE IF ~pg.showNBR /\ cur.nbrLayer
    THEN [cur EXCEPT !.nbrLayer = FALSE]
  ELSE cur

\* ... and calls onNbrLoadingChange(false) in that case
NbrToggleEffectReports(pg, om, cur) ==
  /\ om.seen.nbrToggle # NbrToggleDeps(pg, om)
  /\ ~(pg.showNBR /\ om.nirUrl # NULL /\ om.swirUrl # NULL)
  /\ ~pg.showNBR /\ cur.nbrLayer

\* the extent reset effect
ResetEffect(pg, om, cur) ==
  IF om.seen.reset = ResetDeps(pg, om) THEN cur
  ELSE [cur EXCEPT !.initialNbrExtentRef = NullExtent,
                   !.nbrCalculationExtent = NullExtent]

\* after a render: the effects whose dependencies changed run in order, each
\* with the state of that render and the refs as they are by then
OLMapEffects ==
  /\ ~Quiescent
  /\ LET c1 == VisibilityEffect(page, olmap, olmap)
         c2 == SatelliteEffect(page, olmap, c1)
         c3 == NbrToggleEffect(page, olmap, c2)
         c4 == ResetEffect(page, olmap, c3)
     IN /\ c4.started <= MaxFetches
        /\ olmap' = [c4 EXCEPT !.seen = DepsOf(page, olmap)]
        /\ page' = IF NbrToggleEffectReports(page, olmap, c1)
                     THEN [page EXCEPT !.isNBRLoading = FALSE]
                     ELSE page
  /\ UNCHANGED <<pixelData, syncData, keyReq, chunk, mapLayers>>
  /\ UNCHANGED <<coordVars, workerVars, windowVars>>

\* ------------------------------------------------------ idle values
DrawIdle == pixelData = <<>> /\ syncData = <<>>

KeyIdle == keyReq = <<>>

ChunkIdle == chunk = <<>>

LayersIdle == mapLayers = <<>>

OLMapIdle == olmap = <<>>

PageIdle == page = <<>>

AuxIdle == DrawIdle /\ KeyIdle /\ ChunkIdle /\ LayersIdle /\ OLMapIdle /\ PageIdle

Init == CoordInit /\ WorkerIdle /\ WindowIdle /\ AuxIdle

\* ------------------------------------------------------------ specification
Next ==
  \/ \E p \in PropsSet, cb \in BOOLEAN : Commit(p, cb)
  \/ Unmount
  \/ CalcReturnEarly
  \/ CalcCacheHit
  \/ CalcInProgress
  \/ CalcStart
  \/ \E c \in CompIds : AwaitResolved(c)
  \/ \E c \in CompIds : AwaitRejected(c)
  \/ \E c \in CompIds : ReadRastersResolved(c)
  \/ \E w \in CompIds : WorkerRun(w)
  \/ \E w \in CompIds : OnProgress(w)
  \/ \E w \in CompIds : OnComplete(w)

Spec == Init /\ [][Next]_vars

\* what happens without the user or the parent: the due calculateNBR effect
\* runs, a pending promise of computation c settles, worker c runs, a
\* message of worker c is delivered
EffectRuns == CalcReturnEarly \/ CalcCacheHit \/ CalcInProgress \/ CalcStart

PromiseSettles(c) ==
  c \in CompIds /\ (AwaitResolved(c) \/ AwaitRejected(c) \/ ReadRastersResolved(c))

WorkerActs(c) == c \in CompIds /\ WorkerRun(c)

MessageDelivered(c) == c \in CompIds /\ (OnProgress(c) \/ OnComplete(c))

\* the component with its scheduling: effects are run after the commit,
\* promises settle, a worker that is not terminated runs, posted messages
\* reach the handler; renders with new props and the unmount are up to the
\* parent
SpecLive ==
  /\ Spec
  /\ WF_vars(EffectRuns)
  /\ \A c \in 1..MaxComps :
       /\ WF_vars(PromiseSettles(c))
       /\ WF_vars(WorkerActs(c))
       /\ WF_vars(MessageDelivered(c))

\* one run of the worker over one message
InitWorker == CoordInit /\ WorkerInit /\ WindowIdle /\ AuxIdle

NextWorker == WorkerPixel \/ WorkerComplete \/ DrawPixels \/ DrawPixelsSync

SpecWorker == InitWorker /\ [][NextWorker]_vars

\* one pass from the opened images to the installed layer
InitWindow == CoordInit /\ WorkerIdle /\ WindowInit /\ AuxIdle

NextWindow == ResolveWindows \/ ReadRasters \/ PostBuffers \/ InstallLayer

SpecWindow == InitWindow /\ [][NextWindow]_vars

\* the lookups of calculateNBR by key
InitKey == /\ CoordInit /\ WorkerIdle /\ WindowIdle
           /\ DrawIdle /\ KeyInit /\ ChunkIdle /\ LayersIdle /\ OLMapIdle /\ PageIdle

NextKey == \E r \in KeyRequests : KeyCacheLookup(r) \/ KeyProgressLookup(r)

SpecKey == InitKey /\ [][NextKey]_vars

\* one run of the worker's onmessage, chunk by chunk; the handler runs to
\* its end once started, hence the fairness
InitChunk == /\ CoordInit /\ WorkerIdle /\ WindowIdle
             /\ DrawIdle /\ KeyIdle /\ ChunkInit /\ LayersIdle /\ OLMapIdle /\ PageIdle

NextChunk == ChunkStep \/ ChunkComplete

SpecChunk == InitChunk /\ [][NextChunk]_vars /\ WF_vars(NextChunk)

\* the layers of the map under createNBRLayer, the two removals and the
\* other layer operations of OLMap
InitLayers == /\ CoordInit /\ WorkerIdle /\ WindowIdle
              /\ DrawIdle /\ KeyIdle /\ ChunkIdle /\ LayersInit /\ OLMapIdle /\ PageIdle

NextLayers ==
  \/ \E from \in {"complete", "cache"} : LayerCreate(from)
  \/ \E by \in {"NBRCalculator", "OLMap"} : LayerHide(by)
  \/ \E url \in SatelliteUrls : SatelliteAdd(url)
  \/ SatelliteRemove
  \/ FiresAdd
  \/ BaseReplace

SpecLayers == InitLayers /\ [][NextLayers]_vars

\* the page with its toggles and the OLMap it renders
InitPage == /\ CoordInit /\ WorkerIdle /\ WindowIdle
            /\ DrawIdle /\ KeyIdle /\ ChunkIdle /\ LayersIdle /\ OLMapInit /\ PageInit

NextPage ==
  \/ \E f \in Fires \cup {NULL} : FireSelect(f)
  \/ SatelliteChange
  \/ NBRChange
  \/ NbrLoadingStart
  \/ \E withLayer \in BOOLEAN : NbrLoadingEnd(withLayer)
  \/ \E e \in MapExtents : MapMove(e)
  \/ \E result \in StacResults : StacResolves(result)
  \/ OLMapEffects

SpecPage == InitPage /\ [][NextPage]_vars

\* ----------------------------------------------------------- steps, by shape
\* the step starts a computation
IsStart == Len(comps') = Len(comps) + 1

\* the step is a calculateNBR invocation that gets to the cache check and finds
\* an entry with its key
IsCacheHit == /\ phase = "calc" /\ phase' = "idle"
              /\ ~rendered.proc /\ InputsPresent /\ CacheHolds(RenderedKey)

\* the step is a render in which visible turns false
IsHide == rendered.valid /\ rendered.visible /\ ~rendered'.visible

IsUnmount == mounted /\ ~mounted'

\* a later computation has taken the worker slot from computation c
Superseded(c) == c < Len(comps)

LiveWorkers == {w \in CompIds : ~workers[w].terminated}

\* the step is the catch block of computation c
IsFail(c) == comps[c].stage \in FetchStages /\ comps'[c].stage = "failed"

\* in the step computation c sets its handler and posts its buffers
IsPost(c) == comps[c].stage = "reading" /\ comps'[c].stage = "posted"

\* in the step the handler of computation c handles a 'complete' message
IsComplete(c) == comps[c].stage = "posted" /\ comps'[c].stage = "complete"

\* computation c has started and neither failed nor seen its handler complete
InFlight(c) == comps[c].stage \in FetchStages \cup {"posted"}

\* ------------------------------------------------------------------ claims
\* C1: over any run of calculateNBR invocations with visible = true and the
\* same nirUrl, swirUrl and extent numbers (the extent array object may be
\* replaced by a new one with the same numbers), only one computation is
\* started.
C1_OneComputationPerRequestRun == startsSinceChange <= 1

\* C2: a calculateNBR invocation that finds the cache entry of its key builds
\* the layer from the cached values and calls onCalculationComplete with the
\* cached statistics in that same step, and changes nothing else: workers,
\* slot, computations (fetches), isLoading, calculationKey, isNBRProcessed and
\* the cache entry stay as they are, and onLoadingChange is not called.
C2_CacheHitFrame ==
  [][IsCacheHit =>
       /\ layer' = [src |-> cacheRef.src, key |-> cacheRef.key,
                    extent |-> rendered.ext.vals]
       /\ calls' = {CalculationComplete(cacheRef.src)}
       /\ UNCHANGED <<workers, workerRef, comps, isLoading, calculationKey,
                      isNBRProcessed, calculationProgress, cacheRef>>]_vars

\* a cache hit has just been served: the layer shows the cached run
C2_Witness ==
  /\ cacheRef # NoEntry
  /\ calls = {CalculationComplete(cacheRef.src)}
  /\ layer.src = cacheRef.src /\ layer.key = cacheRef.key
  /\ ~isLoading

\* C3: a cache entry with key K holds the output of a worker run over buffers
\* fetched for the URLs and extent of K.
C3_CacheIntegrity ==
  cacheRef # NoEntry => comps[cacheRef.src].key = cacheRef.key

\* C4: a computation whose worker slot a newer computation has taken posts no
\* buffers, and its handler installs no layer, writes no cache entry and
\* calls no onCalculationComplete.
C4_SupersededDiscarded ==
  [][\A c \in CompIds : Superseded(c) => ~(IsPost(c) \/ IsComplete(c))]_vars

\* C5: a worker is posted the buffers of a computation only after that
\* computation's readRasters calls have resolved, and the layer installed for
\* key K shows the worker run over K's own buffers.
C5_OrderingWithinComputation ==
  /\ \A w \in CompIds : \A i \in 1..Len(workers[w].inbox) :
        comps[workers[w].inbox[i]].stage \notin FetchStages
  /\ layer # NoLayer => comps[layer.src].key = layer.key

\* C6: at most one worker is live, and it is the one in the slot; starting a
\* computation terminates every worker there was; a 'complete' handled, a
\* failure, visible turning false and unmounting leave the slot empty and no
\* worker live.
C6_SingleWorkerSlot ==
  [][/\ Cardinality(LiveWorkers') <= 1
     /\ LiveWorkers' \subseteq {workerRef'}
     /\ IsStart => \A w \in CompIds : workers'[w].terminated
     /\ ((\E c \in CompIds : IsComplete(c) \/ IsFail(c)) \/ IsHide \/ IsUnmount)
          => (workerRef' = 0 /\ LiveWorkers' = {})]_vars

\* a worker was live with its computation posted, and the slot is now empty
\* after its 'complete' was handled
C6_Witness ==
  /\ \E c \in CompIds : comps[c].stage = "complete"
  /\ Len(comps) = 2
  /\ workerRef = 0
  /\ LiveWorkers = {}

\* C7: onLoadingChange(true) is called exactly in the step that starts a
\* computation; onLoadingChange(false) is called, and isLoading cleared, when
\* a 'complete' is handled or a computation fails; while a computation is in
\* flight isLoading is true; a cache hit calls neither.
C7_LoadingSignal ==
  [][/\ (LoadingChange(TRUE) \in calls') <=> IsStart
     /\ (\E c \in CompIds : IsComplete(c) \/ IsFail(c))
          => (LoadingChange(FALSE) \in calls' /\ ~isLoading')
     /\ IsCacheHit => calls' \cap {LoadingChange(TRUE), LoadingChange(FALSE)} = {}
     /\ \A c \in 1..Len(comps') : (comps'[c].stage \in FetchStages \cup {"posted"})
                                    => isLoading']_vars

\* C8: when an await of computation c rejects, the step leaves isLoading
\* false, calls onLoadingChange(false) and nothing else, leaves the slot empty
\* and no worker live, and changes neither cache nor layer; and no computation
\* is started for a key that has failed since the inputs and visibility last
\* reset the state.
C8_FetchFailure ==
  [][/\ \A c \in CompIds : IsFail(c) =>
          /\ ~isLoading'
          /\ calls' = {LoadingChange(FALSE)}
          /\ workerRef' = 0 /\ LiveWorkers' = {}
          /\ cacheRef' = cacheRef
          /\ layer' = layer
     /\ IsStart => comps'[Len(comps')].key \notin failedKeys]_vars

\* a computation has failed and the render after the failure has run
\* calculateNBR for the same key without starting anything
C8_Witness ==
  /\ Len(comps) = 1 /\ comps[1].stage = "failed"
  /\ comps[1].key \in failedKeys
  /\ phase = "idle" /\ rendered.visible /\ ~rendered.proc
  /\ rendered.key = comps[1].key
  /\ ~isLoading /\ workerRef = 0 /\ cacheRef = NoEntry /\ layer = NoLayer

\* C9: a calculateNBR invocation for a key whose computation has failed, with
\* inputs and visibility as they were, no cache entry and no computation of
\* that key in flight, starts a computation.
C9_RetryAfterFailure ==
  [][(/\ phase = "calc" /\ phase' = "idle"
      /\ ~rendered.proc /\ InputsPresent
      /\ RenderedKey \in failedKeys
      /\ ~CacheHolds(RenderedKey)
      /\ \A c \in CompIds : comps[c].key = RenderedKey => ~InFlight(c))
       => IsStart]_vars

\* the per-key transitions of the state machine; a request in Failed goes
\* through Idle in the same step
KeyTransitions ==
  {<<"Idle", "Fetching">>, <<"Fetching", "Computing">>, <<"Computing", "Cached">>,
   <<"Fetching", "Failed">>, <<"Computing", "Failed">>, <<"Idle", "Cached">>,
   <<"Failed", "Idle">>, <<"Failed", "Fetching">>, <<"Failed", "Cached">>}

\* C10: every change of a key's state is one of the transitions of the state
\* machine.
C10_KeyStateMachine ==
  [][\A k \in AllKeys : kstate'[k] # kstate[k]
                          => <<kstate[k], kstate'[k]>> \in KeyTransitions]_vars

\* C11: the render in which visible turns false (map instance present) removes
\* the NBR layer and leaves the cache entry as it is; and as long as the last
\* render had visible = false no NBR layer is on the map, whatever the
\* computations that were fetching or computing at the toggle do afterwards.
C11_VisibilityOffReleases ==
  [][/\ (IsHide /\ rendered'.map) => (layer' = NoLayer /\ cacheRef' = cacheRef)
     /\ (rendered'.valid /\ ~rendered'.visible) => layer' = NoLayer]_vars

\* visible is false with a result cached, and a computation that was started
\* while visible is still in its fetches
C11_Witness ==
  /\ rendered.valid /\ ~rendered.visible /\ rendered.map
  /\ cacheRef # NoEntry
  /\ layer = NoLayer
  /\ \E c \in CompIds : comps[c].stage = "reading"

\* C12: a calculateNBR invocation that gets to the cache check for a key
\* whose computation has completed (its 'complete' handler has written the
\* cache entry of that key) finds the entry of that key in the cache.
C12_NoEviction ==
  (/\ phase = "calc" /\ ~rendered.proc /\ InputsPresent
   /\ \E c \in CompIds : comps[c].key = RenderedKey /\ comps[c].stage = "complete")
    => CacheHolds(RenderedKey)

\* ------------------------------------------------ claims on the pixel loop
\* the Float32Array entry that holds the no-data value
SentinelEntry == F32(Rat(noDataValue, 1))

\* pixel k (from 1) has a sample in both buffers
HasSamples(k) == k <= Len(edata.nirData) /\ k <= Len(edata.swirData)

\* the no-data test on the raw samples
RawNoData(rawNir, rawSwir) ==
  rawNir = 0 \/ rawSwir = 0 \/ rawNir > 65000 \/ rawSwir > 65000

\* (nir - swir) / (nir + swir) lies in [-1, 1]
RawInRange(rawNir, rawSwir) ==
  rawNir + rawSwir # 0 /\ Abs(rawNir - rawSwir) <= Abs(rawNir + rawSwir)

\* pixels with a value in the buffer of the message
ValidEntries(buffer) == {k \in 1..Len(buffer) : buffer[k] # SentinelEntry}

\* C13: the loop iteration for a pixel with rawNir = 0, rawSwir = 0,
\* rawNir > 65000, rawSwir > 65000 or a raw sum of at most 10 (scaled sum at
\* most 0.001) stores the no-data value and leaves minValue and maxValue as
\* they were.
C13_NoDataRule ==
  [][(/\ pixelIndex' = pixelIndex + 1
      /\ HasSamples(pixelIndex + 1)
      /\ LET rawNir == edata.nirData[pixelIndex + 1]
             rawSwir == edata.swirData[pixelIndex + 1]
         IN RawNoData(rawNir, rawSwir) \/ rawNir + rawSwir <= 10)
       => /\ nbrValues'[pixelIndex + 1] = SentinelEntry
          /\ minValue' = minValue
          /\ maxValue' = maxValue]_vars

\* the pixel with samples 4 and 6 (raw sum exactly 10) has been processed
C13_Witness ==
  /\ pixelIndex >= 1
  /\ edata.nirData[1] = 4 /\ edata.swirData[1] = 6
  /\ nbrValues[1] = SentinelEntry
  /\ minValue = Infinity /\ maxValue = NegInfinity

\* C14 as stated: every processed pixel whose samples are both nonzero and
\* both at most 65000 holds (nir - swir) / (nir + swir), stored as a
\* Float32, when that lies in [-1, 1], and the no-data value otherwise.
C14_AsStated ==
  \A k \in 1..pixelIndex : HasSamples(k) =>
    LET rawNir == edata.nirData[k]
        rawSwir == edata.swirData[k]
    IN ~RawNoData(rawNir, rawSwir) =>
         IF RawInRange(rawNir, rawSwir)
           THEN nbrValues[k] = F32(Rat(rawNir - rawSwir, rawNir + rawSwir))
           ELSE nbrValues[k] = SentinelEntry

\* C14: every processed pixel whose samples are both nonzero and both at most
\* 65000 and whose raw sum exceeds 10 holds the Float32 nearest to
\* (nir - swir) / (nir + swir) when that lies in [-1, 1], and the no-data
\* value otherwise; and every processed entry other than the no-data value
\* lies in [-1, 1].
C14_IndexFormula ==
  /\ \A k \in 1..pixelIndex : HasSamples(k) =>
       LET rawNir == edata.nirData[k]
           rawSwir == edata.swirData[k]
       IN (~RawNoData(rawNir, rawSwir) /\ rawNir + rawSwir > 10) =>
            IF RawInRange(rawNir, rawSwir)
              THEN nbrValues[k] = F32(Rat(rawNir - rawSwir, rawNir + rawSwir))
              ELSE nbrValues[k] = SentinelEntry
  /\ \A k \in 1..pixelIndex :
       nbrValues[k] # SentinelEntry => F32InUnit(nbrValues[k])

\* the run over NIR [4000, 0, 9000] and SWIR [2000, 500, 9500] is through
\* its loop: 1/3, no data, -1/37
C14_Witness ==
  /\ edata.nirData = <<4000, 0, 9000>> /\ edata.swirData = <<2000, 500, 9500>>
  /\ pixelIndex = 3
  /\ nbrValues = <<F32(Rat(1, 3)), SentinelEntry, F32(Rat(0 - 1, 37))>>

\* C15: in the 'complete' message, when no entry of the buffer holds a value
\* the statistics are (-1, 1); otherwise minValue and maxValue are the values
\* computed for two pixels whose entries hold a value, their Float32 stores
\* are the least and the greatest of those entries, and minValue <= maxValue.
\* They are never NaN or infinite.  For NIR [4000, 0, 9000] and SWIR
\* [2000, 500, 9500] they are -1/37 and 1/3, the values of pixels 0 and 2.
C15_MinMax ==
  posted.type = "complete" =>
    LET valid == ValidEntries(posted.nbrValues)
        lo == posted.stats.minValue
        hi == posted.stats.maxValue
        Value(k) == Rat(edata.nirData[k] - edata.swirData[k],
                        edata.nirData[k] + edata.swirData[k])
    IN /\ ~lo.nan /\ lo.den # 0 /\ ~hi.nan /\ hi.den # 0
       /\ IF valid = {}
            THEN lo = Rat(0 - 1, 1) /\ hi = Rat(1, 1)
            ELSE /\ \E k \in valid : lo = Value(k)
                 /\ \E k \in valid : hi = Value(k)
                 /\ \A k \in valid : /\ ~F32Lt(posted.nbrValues[k], F32(lo))
                                     /\ ~F32Lt(F32(hi), posted.nbrValues[k])
                 /\ Le(lo, hi)
       /\ (edata.nirData = <<4000, 0, 9000>> /\ edata.swirData = <<2000, 500, 9500>>)
            => (valid = {1, 3} /\ lo = Rat(0 - 1, 37) /\ hi = Rat(1, 3))

\* the 'complete' message of the run over NIR [4000, 0, 9000] and SWIR
\* [2000, 500, 9500]
C15_Witness ==
  /\ posted.type = "complete"
  /\ edata.nirData = <<4000, 0, 9000>> /\ edata.swirData = <<2000, 500, 9500>>
  /\ posted.nbrValues[2] = SentinelEntry
  /\ posted.stats = [minValue |-> Rat(0 - 1, 37), maxValue |-> Rat(1, 3)]

\* ------------------------------------------- claims on windows and buffers
Resolved == win.stage # "none"

FullNir == <<0, 0, geo.nirImageWidth, geo.nirImageHeight>>
FullSwir == <<0, 0, geo.swirImageWidth, geo.swirImageHeight>>

\* f = max(0, floor(t / d)) and c = min(limit, ceil(t / d)), d > 0, said
\* without a division
ClampedFloor(f, t, d) ==
  (f = 0 /\ t < d) \/ (f > 0 /\ f * d <= t /\ t < (f + 1) * d)
ClampedCeil(c, t, d, limit) ==
  (c = limit /\ t > (limit - 1) * d) \/ (c < limit /\ (c - 1) * d < t /\ t <= c * d)

\* on one axis, with the requested range at t1..t2 (pixels times d): the
\* clamped bounds leave no pixel
DegenerateAxis(t1, t2, d, limit) ==
  t2 <= 0 \/ t1 >= limit * d \/ \E n \in 0..limit : t2 <= n * d /\ n * d <= t1

\* the requested extent in pixels of the NIR image, times the extent of the
\* bounding box: left, top, right, bottom
PixelLeft == geo.nirImageWidth * (win.mapBboxWgs84[1] - geo.nirBbox[1])
PixelRight == geo.nirImageWidth * (win.mapBboxWgs84[3] - geo.nirBbox[1])
PixelTop == geo.nirImageHeight * (geo.nirBbox[4] - win.mapBboxWgs84[4])
PixelBottom == geo.nirImageHeight * (geo.nirBbox[4] - win.mapBboxWgs84[2])
BboxWidth == geo.nirBbox[3] - geo.nirBbox[1]
BboxHeight == geo.nirBbox[4] - geo.nirBbox[2]

\* the requested extent has no point inside the bounding box of the image
ExtentOutside ==
  \/ win.mapBboxWgs84[1] >= geo.nirBbox[3] \/ win.mapBboxWgs84[3] <= geo.nirBbox[1]
  \/ win.mapBboxWgs84[2] >= geo.nirBbox[4] \/ win.mapBboxWgs84[4] <= geo.nirBbox[2]

\* C16: the two buffers posted to the worker both hold actualWidth *
\* actualHeight samples, actualWidth = ceil(windowWidth / factor) and
\* actualHeight = ceil(windowHeight / factor) of the NIR window, which are the
\* windowWidth and windowHeight of the message.
C16_EqualLengthBuffers ==
  win.stage \in {"posted", "installed"} =>
    /\ win.actualWidth = CeilDiv(win.nir[3] - win.nir[1], win.downsamplingFactor)
    /\ win.actualHeight = CeilDiv(win.nir[4] - win.nir[2], win.downsamplingFactor)
    /\ win.message = [windowWidth |-> win.actualWidth, windowHeight |-> win.actualHeight]
    /\ win.nirLength = win.actualWidth * win.actualHeight
    /\ win.swirLength = win.actualWidth * win.actualHeight

\* C17: the resolved NIR window lies in the image and holds a pixel; it is
\* the window of floor values clamped at 0 and ceiling values clamped at
\* width and height when that holds a pixel, and the full image when that is
\* degenerate; for an extent outside the bounding box it is the full image.
C17_NirWindow ==
  Resolved =>
    /\ 0 <= win.nir[1] /\ win.nir[1] < win.nir[3] /\ win.nir[3] <= geo.nirImageWidth
    /\ 0 <= win.nir[2] /\ win.nir[2] < win.nir[4] /\ win.nir[4] <= geo.nirImageHeight
    /\ \/ /\ ClampedFloor(win.nir[1], PixelLeft, BboxWidth)
          /\ ClampedFloor(win.nir[2], PixelTop, BboxHeight)
          /\ ClampedCeil(win.nir[3], PixelRight, BboxWidth, geo.nirImageWidth)
          /\ ClampedCeil(win.nir[4], PixelBottom, BboxHeight, geo.nirImageHeight)
       \/ /\ win.nir = FullNir
          /\ \/ DegenerateAxis(PixelLeft, PixelRight, BboxWidth, geo.nirImageWidth)
             \/ DegenerateAxis(PixelTop, PixelBottom, BboxHeight, geo.nirImageHeight)
    /\ ExtentOutside => win.nir = FullNir

\* an extent east of the image has been resolved, to the full image
C17_Witness ==
  /\ Resolved
  /\ win.mapBboxWgs84[1] >= geo.nirBbox[3]
  /\ win.nir = FullNir

\* C18: the SWIR window is the NIR window scaled by swirWidth / nirWidth and
\* swirHeight / nirHeight, left and top rounded down, right and bottom
\* rounded up; it lies in the SWIR image and holds a pixel; and it is the
\* full SWIR image when the NIR window is the full NIR image.
C18_SwirWindow ==
  Resolved =>
    /\ ClampedFloor(win.swir[1], win.nir[1] * geo.swirImageWidth, geo.nirImageWidth)
    /\ ClampedFloor(win.swir[2], win.nir[2] * geo.swirImageHeight, geo.nirImageHeight)
    /\ ClampedCeil(win.swir[3], win.nir[3] * geo.swirImageWidth, geo.nirImageWidth,
                   geo.swirImageWidth)
    /\ ClampedCeil(win.swir[4], win.nir[4] * geo.swirImageHeight, geo.nirImageHeight,
                   geo.swirImageHeight)
    /\ 0 <= win.swir[1] /\ win.swir[1] < win.swir[3] /\ win.swir[3] <= geo.swirImageWidth
    /\ 0 <= win.swir[2] /\ win.swir[2] < win.swir[4] /\ win.swir[4] <= geo.swirImageHeight
    /\ win.nir = FullNir => win.swir = FullSwir

\* a NIR window that is not the full image has been scaled to a SWIR image
\* of another size, its right edge falling inside a SWIR pixel
C18_Witness ==
  /\ Resolved
  /\ geo.nirImageWidth = 3 /\ geo.swirImageWidth = 2
  /\ win.nir[3] = 2
  /\ win.swir[3] = 2

\* C19: the extent the layer is installed at is the geographic extent of the
\* resolved NIR window: in degrees, its left edge is at nirX1 / width of the
\* bounding box, its right edge at nirX2 / width, its top at nirY1 / height
\* from the top and its bottom at nirY2 / height from the top.
C19_LayerGeoreferencing ==
  win.stage = "installed" =>
    LET e == toWgs84(win.nbrExtent)
    IN /\ (e[1] - geo.nirBbox[1]) * geo.nirImageWidth = win.nir[1] * BboxWidth
       /\ (e[3] - geo.nirBbox[1]) * geo.nirImageWidth = win.nir[3] * BboxWidth
       /\ (geo.nirBbox[4] - e[4]) * geo.nirImageHeight = win.nir[2] * BboxHeight
       /\ (geo.nirBbox[4] - e[2]) * geo.nirImageHeight = win.nir[4] * BboxHeight

\* C20: calculateDownsamplingFactor gives 4 above 4,000,000 pixels, 2 above
\* 2,000,000 and up to 4,000,000, and 1 up to 2,000,000: for the window of
\* every pass, and for 2500x2000, 1500x1500, 1000x1000, 2000x2000 and
\* 2000x1000.
C20_DownsamplingFactor ==
  /\ Resolved =>
       LET pixels == win.windowWidth * win.windowHeight
       IN /\ pixels > 4000000 => win.downsamplingFactor = 4
          /\ (2000000 < pixels /\ pixels <= 4000000) => win.downsamplingFactor = 2
          /\ pixels <= 2000000 => win.downsamplingFactor = 1
  /\ calculateDownsamplingFactor(2500, 2000) = 4
  /\ calculateDownsamplingFactor(1500, 1500) = 2
  /\ calculateDownsamplingFactor(1000, 1000) = 1
  /\ calculateDownsamplingFactor(2000, 2000) = 2
  /\ calculateDownsamplingFactor(2000, 1000) = 1

\* a window of exactly 4,000,000 pixels has been given factor 2
C20_Witness ==
  /\ Resolved
  /\ win.windowWidth = 2000 /\ win.windowHeight = 2000
  /\ win.downsamplingFactor = 2

\* ---------------------------------------------------------- C21 .. C30
\* the severity classes as half-open intervals [lo, hi) with their colours
SeverityClasses ==
  {[lo |-> NegInfinity, hi |-> Rat(0 - 7, 10), color |-> <<220, 0, 0, 255>>],
   [lo |-> Rat(0 - 7, 10), hi |-> Rat(0 - 44, 100), color |-> <<255, 0, 0, 255>>],
   [lo |-> Rat(0 - 44, 100), hi |-> Rat(0 - 1, 4), color |-> <<255, 50, 0, 255>>],
   [lo |-> Rat(0 - 1, 4), hi |-> Rat(0 - 1, 10), color |-> <<255, 150, 0, 255>>],
   [lo |-> Rat(0 - 1, 10), hi |-> Rat(1, 10), color |-> <<255, 255, 0, 255>>],
   [lo |-> Rat(1, 10), hi |-> Rat(27, 100), color |-> <<50, 180, 50, 255>>],
   [lo |-> Rat(27, 100), hi |-> Rat(44, 100), color |-> <<0, 100, 0, 255>>],
   [lo |-> Rat(44, 100), hi |-> Rat(7, 10), color |-> <<0, 50, 0, 255>>]}

Transparent == <<0, 0, 0, 0>>

\* the four bytes of pixel k (from 1) of a canvas
BytesOf(data, k) == <<data[4 * k - 3], data[4 * k - 2], data[4 * k - 1], data[4 * k]>>

\* the element v lies in [lo, hi)
InClass(v, cl) ==
  (cl.lo.den = 0 \/ ~F32LtNum(v, cl.lo)) /\ F32LtNum(v, cl.hi)

\* C21: getNBRColor is the step function of the eight half-open classes,
\* transparent from 0.7 on and for the sentinel -9999, with exactly -0.25
\* moderate and exactly 0.7 transparent; and the canvas drawn by
\* createNBRLayer holds for every pixel i, in bytes 4i..4i+3, the colour of
\* values[i] and nothing else.
C21_ClassesAndRaster ==
  /\ getNBRColorNumber(Rat(0 - 1, 4)) = <<255, 150, 0, 255>>
  /\ getNBRColorNumber(Rat(7, 10)) = Transparent
  /\ getNBRColorNumber(Rat(0 - 9999, 1)) = Transparent
  /\ \A cl \in SeverityClasses :
       /\ cl.lo.den # 0 => getNBRColorNumber(cl.lo) = cl.color
       /\ getNBRColorNumber(cl.hi) # cl.color
  /\ pixelData # <<>> =>
       /\ Len(pixelData) = 4 * Len(posted.nbrValues)
       /\ \A k \in 1..Len(posted.nbrValues) :
            LET v == posted.nbrValues[k]
                c == BytesOf(pixelData, k)
            IN IF v = SentinelEntry THEN c = Transparent
               ELSE /\ \A cl \in SeverityClasses : InClass(v, cl) => c = cl.color
                    /\ ~F32LtNum(v, Rat(7, 10)) => c = Transparent
                    /\ c = Transparent \/ \E cl \in SeverityClasses : InClass(v, cl)

\* the canvas of the run over NIR [3000, 0, 9000] and SWIR [5000, 500, 1000]
\* is drawn: -0.25 moderate, no data transparent, 0.8 transparent
C21_Witness ==
  /\ edata.nirData = <<3000, 0, 9000>> /\ edata.swirData = <<5000, 500, 1000>>
  /\ pixelData = <<255, 150, 0, 255, 0, 0, 0, 0, 0, 0, 0, 0>>
  /\ posted.nbrValues[1] = F32(Rat(0 - 1, 4))

\* C24: in the canvas drawn by the synchronous variant, every pixel whose NBR
\* value is the no-data sentinel -9999 is fully transparent.
C24_SyncSentinelTransparent ==
  syncData # <<>> =>
    \A k \in 1..Len(nbrValues) :
      nbrValues[k] = SentinelEntry => BytesOf(syncData, k) = Transparent

\* C22: a request matches the key of a cached or running computation only if
\* it has the same NIR URL, the same SWIR URL and the same four extent
\* numbers as the request that computation was made for.
C22_KeyInjective ==
  keyReq.match => keyReq.req = keyReq.held

\* what holds of the messages posted so far
ChunkMessagesOK ==
  /\ chunk.completeCount <= 1
  /\ chunk.progressCount > 0 =>
       /\ ChunkTotal > 100000
       /\ chunk.progress \in 0..100
  /\ ChunkTotal > 100000 =>
       chunk.progressCount = CeilDiv(chunk.pixelIndex, 10000)
  /\ chunk.completeCount = 1 =>
       /\ chunk.last = "complete"
       /\ chunk.pixelIndex = ChunkTotal
       /\ ChunkTotal > 100000 => chunk.progress = 100

\* from one message to the next
ChunkMessagesOrdered ==
  /\ chunk.completeCount = 1 => chunk' = chunk
  /\ chunk.progressCount > 0 => chunk'.progress >= chunk.progress
  /\ chunk'.progressCount \in {chunk.progressCount, chunk.progressCount + 1}

\* C23: for every request message the loop terminates and posts exactly one
\* 'complete' message, after all 'progress' messages; every progress value
\* is an integer in 0..100, the values never decrease, progress is posted
\* only when width * height > 100000, once per chunk of 10000 pixels, and the
\* last progress value before 'complete' is 100.
C23_ProgressAndComplete ==
  /\ []ChunkMessagesOK
  /\ [][ChunkMessagesOrdered]_vars
  /\ <>(chunk.completeCount = 1)

\* the run over a window of 500 x 625 pixels has posted its 32 progress
\* messages, the last one 100, and the 'complete' message
C23_Witness ==
  /\ chunk.windowWidth = 500 /\ chunk.windowHeight = 625
  /\ chunk.progressCount = 32 /\ chunk.progress = 100
  /\ chunk.completeCount = 1

\* C25: while the component stays mounted, isLoading = true is eventually
\* followed by isLoading = false, and each onLoadingChange(true) by an
\* onLoadingChange(false).
C25_LoadingClears ==
  /\ (mounted /\ isLoading) ~> (~mounted \/ ~isLoading)
  /\ (mounted /\ LoadingChange(TRUE) \in calls)
       ~> (~mounted \/ LoadingChange(FALSE) \in calls)

\* the positions of the layers named 'NBRLayer'
NBRLayersOnMap == {k \in 1..Len(mapLayers.array) : mapLayers.array[k].name = "NBRLayer"}

\* C26: the map holds at most one layer named 'NBRLayer', and it is the one
\* created last: createNBRLayer removes the existing one before it adds the
\* new one.
C26_AtMostOneNBRLayer ==
  /\ Cardinality(NBRLayersOnMap) <= 1
  /\ \A k \in NBRLayersOnMap : mapLayers.array[k].id = mapLayers.made

\* a second NBR layer has been created while the first was on the map, with
\* a satellite layer present: the map holds the second one only
C26_Witness ==
  /\ mapLayers.made = 2
  /\ Cardinality(NBRLayersOnMap) = 1
  /\ FindLayer(mapLayers.array, "satellite") # 0
  /\ mapLayers.array[Len(mapLayers.array)].name = "firePerimeters"

\* C27: once an extent is stored as the calculation extent, no step changes
\* it or the extent handed to NBRCalculator, map moves and NBR toggles
\* included, except the step that clears it, and that step is the run of the
\* effects after a change of the selected fire or of the sentinel image URL.
C27_FrozenExtent ==
  [][olmap.nbrCalculationExtent # NullExtent =>
       \/ /\ olmap'.nbrCalculationExtent = olmap.nbrCalculationExtent
          /\ HandedExtent(olmap') = HandedExtent(olmap)
       \/ /\ olmap'.nbrCalculationExtent = NullExtent
          /\ <<page.selectedFire, olmap.sentinelUrl>> # olmap.seen.reset]_vars

\* NBR is on with both band URLs, the map has moved since the extent was
\* stored and the effects have run: the extent handed on is the stored one
C27_Witness ==
  /\ page.showNBR /\ olmap.nirUrl # NULL /\ olmap.swirUrl # NULL
  /\ olmap.seen = DepsOf(page, olmap)
  /\ olmap.nbrCalculationExtent # NullExtent
  /\ olmap.currentMapExtent # olmap.nbrCalculationExtent
  /\ HandedExtent(olmap) = olmap.initialNbrExtentRef

\* C28: when showSatelliteImagery is off and the effects have run, no
\* satellite layer is on the map and nirUrl and swirUrl are null.
C28_SatelliteOffStable ==
  (~page.showSatelliteImagery /\ olmap.seen = DepsOf(page, olmap)) =>
    /\ olmap.satelliteLayerRef = NoImage
    /\ olmap.nirUrl = NULL /\ olmap.swirUrl = NULL

\* C29: showNBR implies showSatelliteImagery and a selected fire; a step
\* that changes the selected fire leaves both flags false, and a step that
\* switches satellite imagery off leaves NBR off.
C29_ToggleDependency ==
  /\ [](page.showNBR => page.showSatelliteImagery /\ page.selectedFire # NULL)
  /\ [][/\ page'.selectedFire # page.selectedFire =>
             ~page'.showSatelliteImagery /\ ~page'.showNBR
        /\ (page.showSatelliteImagery /\ ~page'.showSatelliteImagery) =>
             ~page'.showNBR]_vars

\* NBR was switched on through the mounted toggle and satellite imagery has
\* been switched off since, the fire still selected: NBR is off
C29_Witness ==
  /\ page.selectedFire # NULL /\ page.forwarded = 1
  /\ ~page.showSatelliteImagery /\ ~page.showNBR

\* C30: one mounted NBRToggle calls onToggle at most once, and a change
\* event after the first leaves showNBR as it is.
C30_ForwardsOnce ==
  /\ [](page.forwarded <= 1)
  /\ [][(page'.changes = page.changes + 1 /\ page.changes >= 1) =>
          /\ page'.showNBR = page.showNBR
          /\ page'.forwarded = page.forwarded]_vars

\* the mounted toggle has had two change events and forwarded one; NBR is
\* still on
C30_Witness ==
  /\ page.selectedFire # NULL
  /\ page.changes = 2 /\ page.forwarded = 1 /\ page.showNBR

====
